---------------------------- MODULE Spec2Model ----------------------------
(***************************************************************************)
(* A model of go-docx: the run locator (RunParser), the placeholder        *)
(* assembler (ParsePlaceholders) and the replacement engine (Replacer).    *)
(*                                                                         *)
(* The buffer is a sequence of one-character strings.  A Go byte offset o  *)
(* denotes the (o+1)-th element of the sequence; the Go slice b[s:e] is    *)
(* Slice(b, s, e).  Runs live in one arena (the parser's run list) and are *)
(* referenced by their index in it, which stands for the *Run pointer; a   *)
(* fragment is referenced by the pair (placeholder index, fragment index), *)
(* which stands for the *PlaceholderFragment pointer.                      *)
(***************************************************************************)
EXTENDS Integers, Sequences, FiniteSets, TLC

VARIABLES
    phase,         \* "new" | "located" | "ready" | "failed" | "crashed"
    document,      \* the buffer under edit (RunParser.doc, then Replacer.document)
    runs,          \* the run arena (RunParser.runs)
    runId,         \* the global run ID counter
    placeholders,  \* Replacer.placeholders
    distinctRuns,  \* Replacer.distinctRuns (run arena indices)
    ReplaceCount,  \* Replacer.ReplaceCount
    BytesChanged,  \* Replacer.BytesChanged
    parsed,        \* the texts of the placeholders as ParsePlaceholders returned them
    spent,         \* the placeholders (indices) some Replace call has matched
    calls,         \* number of Replace calls made so far
    last,          \* the last Replace call: key, value and what it returned
    files,         \* Document.files[name]: the bytes GetFile returns, and whether
                   \* Replacer.document still lies in the same backing array
    mu,            \* Replacer.mu: the goroutine that holds it, 0 when it is free
    goroutines,    \* what each goroutine that shares the Replacer is doing
    scan           \* the loop of ParsePlaceholders, when it is followed run by run

vars == <<phase, document, runs, runId, placeholders, distinctRuns,
          ReplaceCount, BytesChanged, parsed, spent, calls, last, files,
          mu, goroutines, scan>>

----------------------------------------------------------------------------
(* Bounds of the model.                                                    *)

MaxRuns == 2
MaxCalls == 2

----------------------------------------------------------------------------
(* Byte strings.                                                           *)

OpenDelimiter == "{"
CloseDelimiter == "}"

Slice(b, s, e) == SubSeq(b, s + 1, e)

SliceOK(b, s, e) == 0 <= s /\ s <= e /\ e <= Len(b)

RECURSIVE Concat(_)
Concat(ss) == IF ss = <<>> THEN <<>> ELSE Head(ss) \o Concat(Tail(ss))

Contains(s, c) == \E i \in 1..Len(s) : s[i] = c

HasInfix(s, w) ==
    \E i \in 0..(Len(s) - Len(w)) : Slice(s, i, i + Len(w)) = w

\* the 0-based offsets of every occurrence of c in s, ascending
RECURSIVE FindAllFrom(_, _, _)
FindAllFrom(s, c, i) ==
    IF i > Len(s) THEN <<>>
    ELSE IF s[i] = c THEN <<i - 1>> \o FindAllFrom(s, c, i + 1)
    ELSE FindAllFrom(s, c, i + 1)

FindAllStringIndex(s, c) == FindAllFrom(s, c, 1)

RunOpenStr == <<"<", "w", ":", "r", ">">>
RunCloseStr == <<"<", "/", "w", ":", "r", ">">>
RunSingletonStr == <<"<", "w", ":", "r", "/", ">">>
TextOpenStr == <<"<", "w", ":", "t", ">">>
TextCloseStr == <<"<", "/", "w", ":", "t", ">">>

RunElementName == <<"r">>
TextElementName == <<"t">>

\* `(<w:r).*>` : "<w:r" somewhere, and a ">" somewhere after it
MatchOpenRegex(s, name) ==
    \E i \in 0..(Len(s) - 4) :
        /\ Slice(s, i, i + 4) = <<"<", "w", ":">> \o name
        /\ \E j \in (i + 5)..Len(s) : s[j] = ">"

RunOpenTagRegex == "(<w:r).*>"
RunCloseTagRegex == "(</w:r>)"
RunSingletonTagRegex == "(<w:r/>)"
TextOpenTagRegex == "(<w:t).*>"
TextCloseTagRegex == "(</w:t>)"

\* regexp.MatchString for the five expressions: a match anywhere in s
MatchString(regex, s) ==
    CASE regex = RunOpenTagRegex -> MatchOpenRegex(s, RunElementName)
      [] regex = RunCloseTagRegex -> HasInfix(s, RunCloseStr)
      [] regex = RunSingletonTagRegex -> HasInfix(s, RunSingletonStr)
      [] regex = TextOpenTagRegex -> MatchOpenRegex(s, TextElementName)
      [] regex = TextCloseTagRegex -> HasInfix(s, TextCloseStr)

----------------------------------------------------------------------------
(* Positions and runs.                                                     *)

Position(s, e) == [Start |-> s, End |-> e]

ZeroPosition == Position(0, 0)

PositionValid(p) == p.Start <= p.End

PositionShift(p, d) == Position(p.Start + d, p.End + d)

\* Position.Match on a position that lies inside the buffer
PositionMatch(p, regex, data) ==
    /\ SliceOK(data, p.Start, p.End)
    /\ MatchString(regex, Slice(data, p.Start, p.End))

\* Position.Match where data[p.Start:p.End] reaches past the length of the
\* buffer: the expression panics past the capacity, and below it reads the
\* bytes an earlier, longer buffer left in the backing array
PositionMayMatch(p, regex, data) ==
    \/ ~SliceOK(data, p.Start, p.End)
    \/ MatchString(regex, Slice(data, p.Start, p.End))

NewEmptyRun(id) ==
    [ID |-> id, OpenTag |-> ZeroPosition, CloseTag |-> ZeroPosition,
     Text |-> [OpenTag |-> ZeroPosition, CloseTag |-> ZeroPosition],
     HasText |-> FALSE]

\* a GetText that starts at the first byte of the text open tag
GetTextFromTagStart(r, documentBytes) ==
    IF ~r.HasText THEN <<>>
    ELSE Slice(documentBytes, r.Text.OpenTag.Start, r.Text.CloseTag.Start)

GetText(r, documentBytes) ==
    IF ~r.HasText THEN <<>>
    ELSE IF Len(documentBytes) < r.Text.OpenTag.End
            \/ Len(documentBytes) < r.Text.CloseTag.Start THEN <<>>
    ELSE Slice(documentBytes, r.Text.OpenTag.End, r.Text.CloseTag.Start)

\* DocumentRuns.WithText, as arena indices in their original order
WithText(rs) == SelectSeq([i \in 1..Len(rs) |-> i], LAMBDA i : rs[i].HasText)


----------------------------------------------------------------------------
(* The tokens encoding/xml's Decoder hands out for the buffer, each with   *)
(* the reader position after it (Reader.Pos(): the offset after the '>').  *)
(* A self-closing tag is a StartElement followed by an EndElement at the   *)
(* same position.  On a syntax error (a mismatched end tag, or the input   *)
(* ending inside a tag or an open element) Token() returns a nil token, so *)
(* the sequence ends there.                                                *)

RECURSIVE IndexFrom(_, _, _)
IndexFrom(s, c, i) ==
    IF i > Len(s) THEN 0
    ELSE IF s[i] = c THEN i
    ELSE IndexFrom(s, c, i + 1)

\* the element name of a tag <name ...>, </name> or <name/>, prefix included
RECURSIVE NameFrom(_, _)
NameFrom(tag, i) ==
    IF i > Len(tag) \/ tag[i] \in {" ", "/", ">"} THEN <<>>
    ELSE <<tag[i]>> \o NameFrom(tag, i + 1)

NameLocal(name) ==
    LET c == IndexFrom(name, ":", 1)
    IN  IF c = 0 THEN name ELSE SubSeq(name, c + 1, Len(name))

RECURSIVE Scan(_, _, _, _)
Scan(doc, i, open, toks) ==
    LET lt == IndexFrom(doc, "<", i)
        gt == IndexFrom(doc, ">", lt)
        tag == SubSeq(doc, lt, gt)
        isEnd == tag[2] = "/"
        isSelf == ~isEnd /\ tag[Len(tag) - 1] = "/"
        name == NameFrom(tag, IF isEnd THEN 3 ELSE 2)
        start == [kind |-> "StartElement", Local |-> NameLocal(name), Pos |-> gt]
        end == [kind |-> "EndElement", Local |-> NameLocal(name), Pos |-> gt]
    IN  IF lt = 0 THEN [toks |-> toks, err |-> open # <<>>]
        ELSE IF gt = 0 THEN [toks |-> toks, err |-> TRUE]
        ELSE IF isEnd THEN
            IF open = <<>> \/ open[Len(open)] # name
            THEN [toks |-> toks, err |-> TRUE]
            ELSE Scan(doc, gt + 1, SubSeq(open, 1, Len(open) - 1), Append(toks, end))
        ELSE IF isSelf THEN Scan(doc, gt + 1, open, toks \o <<start, end>>)
        ELSE Scan(doc, gt + 1, Append(open, name), Append(toks, start))

Tokens(doc) == Scan(doc, 1, <<>>, <<>>)

----------------------------------------------------------------------------
(* RunParser                                                               *)

\* the offset of the '<' matching the '>' at offset endBracketPos
RECURSIVE findOpenBracketPos(_, _)
findOpenBracketPos(doc, endBracketPos) ==
    IF endBracketPos < 0 THEN 0
    ELSE IF doc[endBracketPos + 1] = "<" THEN endBracketPos
    ELSE findOpenBracketPos(doc, endBracketPos - 1)

TagPosition(doc, tagEndPos) ==
    Position(findOpenBracketPos(doc, tagEndPos - 1), tagEndPos)

\* a nextIteration that never takes the enclosing run back from the stack
nextIterationNeverPops(st) ==
    [st EXCEPT !.nestCount = @ - 1,
               !.tmpRun = NewEmptyRun(st.runId + 1),
               !.runId = @ + 1,
               !.singleton = FALSE]

\* nextIteration taking the run that was opened first, not last
nextIterationPopsFirst(st) ==
    IF st.nestCount - 1 > 0
    THEN [st EXCEPT !.nestCount = @ - 1,
                    !.tmpRun = st.runStack[1],
                    !.runStack = SubSeq(@, 2, Len(@)),
                    !.singleton = FALSE]
    ELSE [st EXCEPT !.nestCount = @ - 1,
                    !.tmpRun = NewEmptyRun(st.runId + 1),
                    !.runId = @ + 1,
                    !.singleton = FALSE]

\* nextIteration: the run is finished, continue with the enclosing run or a new one
nextIteration(st) ==
    IF st.nestCount - 1 > 0
    THEN [st EXCEPT !.nestCount = @ - 1,
                    !.tmpRun = st.runStack[Len(st.runStack)],
                    !.runStack = SubSeq(@, 1, Len(@) - 1),
                    !.singleton = FALSE]
    ELSE [st EXCEPT !.nestCount = @ - 1,
                    !.tmpRun = NewEmptyRun(st.runId + 1),
                    !.runId = @ + 1,
                    !.singleton = FALSE]

\* one pass of the loop of findRuns over the token tok
findRunsStep(doc, st, tok) ==
    IF tok.Local # RunElementName THEN st
    ELSE IF tok.kind = "StartElement" THEN
        LET pushed == IF st.nestCount + 1 > 1
                      THEN [st EXCEPT !.nestCount = @ + 1,
                                      !.runStack = Append(@, st.tmpRun),
                                      !.tmpRun = NewEmptyRun(st.runId + 1),
                                      !.runId = @ + 1]
                      ELSE [st EXCEPT !.nestCount = @ + 1]
            pos == TagPosition(doc, tok.Pos)
        IN  [pushed EXCEPT !.tmpRun.OpenTag = pos,
                           !.singleton = IF MatchString(RunSingletonTagRegex,
                                                          Slice(doc, pos.Start, pos.End))
                                         THEN TRUE ELSE @]
    ELSE IF st.singleton THEN
        nextIteration([st EXCEPT !.runs = Append(@, [st.tmpRun EXCEPT !.CloseTag = st.tmpRun.OpenTag])])
    ELSE
        nextIteration([st EXCEPT !.runs = Append(@, [st.tmpRun EXCEPT !.CloseTag = TagPosition(doc, tok.Pos)])])

RECURSIVE findRunsLoop(_, _, _)
findRunsLoop(doc, st, toks) ==
    IF toks = <<>> THEN st
    ELSE findRunsLoop(doc, findRunsStep(doc, st, Head(toks)), Tail(toks))

\* a findRuns that does not look at the nesting depth when the input ends
findRunsIgnoringDepth(doc, id) ==
    LET st0 == [tmpRun |-> NewEmptyRun(id + 1), runId |-> id + 1, singleton |-> FALSE,
                nestCount |-> 0, runStack |-> <<>>, runs |-> <<>>]
        st == findRunsLoop(doc, st0, Tokens(doc).toks)
    IN  [runs |-> st.runs, runId |-> st.runId, err |-> FALSE]

\* findRuns: the runs, the run ID counter and whether it failed (ErrTagsInvalid)
findRuns(doc, id) ==
    LET st0 == [tmpRun |-> NewEmptyRun(id + 1), runId |-> id + 1, singleton |-> FALSE,
                nestCount |-> 0, runStack |-> <<>>, runs |-> <<>>]
        st == findRunsLoop(doc, st0, Tokens(doc).toks)
    IN  [runs |-> st.runs, runId |-> st.runId, err |-> st.nestCount # 0]

\* an inRun that takes the last run of the list that contains the position
inRunLastMatch(rs, pos) ==
    LET hit == {i \in 1..Len(rs) : rs[i].OpenTag.Start < pos /\ pos < rs[i].CloseTag.End}
    IN  IF hit = {} THEN 0 ELSE CHOOSE i \in hit : \A j \in hit : i >= j

\* inRun: the first run of the list that contains the position, 0 for nil
inRun(rs, pos) ==
    LET hit == {i \in 1..Len(rs) : rs[i].OpenTag.Start < pos /\ pos < rs[i].CloseTag.End}
    IN  IF hit = {} THEN 0 ELSE CHOOSE i \in hit : \A j \in hit : i <= j

RECURSIVE findTextRunsLoop(_, _, _)
findTextRunsLoop(doc, st, toks) ==
    IF toks = <<>> \/ st.err THEN st
    ELSE LET tok == Head(toks)
             currentRun == inRun(st.runs, tok.Pos)
             pos == TagPosition(doc, tok.Pos)
         IN  IF tok.Local # TextElementName THEN findTextRunsLoop(doc, st, Tail(toks))
             ELSE IF currentRun = 0 THEN [st EXCEPT !.err = TRUE]
             ELSE IF tok.kind = "StartElement"
             THEN findTextRunsLoop(doc,
                      [st EXCEPT !.runs[currentRun].HasText = TRUE,
                                 !.runs[currentRun].Text.OpenTag = pos], Tail(toks))
             ELSE findTextRunsLoop(doc,
                      [st EXCEPT !.runs[currentRun].Text.CloseTag = pos], Tail(toks))

findTextRuns(doc, rs) ==
    findTextRunsLoop(doc, [runs |-> rs, err |-> FALSE], Tokens(doc).toks)

\* ValidatePositions: TRUE for a nil error
RunPositionsValid(doc, run) ==
    \/ PositionMatch(run.OpenTag, RunSingletonTagRegex, doc)
    \/ /\ PositionMatch(run.OpenTag, RunOpenTagRegex, doc)
       /\ PositionMatch(run.CloseTag, RunCloseTagRegex, doc)
       /\ run.HasText =>
            /\ PositionMatch(run.Text.OpenTag, TextOpenTagRegex, doc)
            /\ PositionMatch(run.Text.CloseTag, TextCloseTagRegex, doc)

ValidatePositions(doc, rs, which) ==
    \A k \in 1..Len(which) : RunPositionsValid(doc, rs[which[k]])

\* the validator reads past the length of the buffer
RunPositionsOverrun(doc, run) ==
    \/ ~SliceOK(doc, run.OpenTag.Start, run.OpenTag.End)
    \/ /\ ~MatchString(RunSingletonTagRegex, Slice(doc, run.OpenTag.Start, run.OpenTag.End))
       /\ \/ ~SliceOK(doc, run.CloseTag.Start, run.CloseTag.End)
          \/ /\ run.HasText
             /\ \/ ~SliceOK(doc, run.Text.OpenTag.Start, run.Text.OpenTag.End)
                \/ ~SliceOK(doc, run.Text.CloseTag.Start, run.Text.CloseTag.End)

RunPositionsMayBeValid(doc, run) ==
    \/ PositionMayMatch(run.OpenTag, RunSingletonTagRegex, doc)
    \/ /\ PositionMayMatch(run.OpenTag, RunOpenTagRegex, doc)
       /\ PositionMayMatch(run.CloseTag, RunCloseTagRegex, doc)
       /\ run.HasText =>
            /\ PositionMayMatch(run.Text.OpenTag, TextOpenTagRegex, doc)
            /\ PositionMayMatch(run.Text.CloseTag, TextCloseTagRegex, doc)

\* what ValidatePositions can give: "ok", "invalid" (ErrTagsInvalid) or "panic"
ValidateOutcomes(doc, rs, which) ==
    IF \E k \in 1..Len(which) : RunPositionsOverrun(doc, rs[which[k]])
    THEN {"panic", "invalid"}
           \cup (IF \A k \in 1..Len(which) : RunPositionsMayBeValid(doc, rs[which[k]])
                 THEN {"ok"} ELSE {})
    ELSE {IF ValidatePositions(doc, rs, which) THEN "ok" ELSE "invalid"}

\* RunParser.Execute: both passes, then the validation
Execute(doc, id) ==
    LET found == findRuns(doc, id)
        texts == findTextRuns(doc, found.runs)
        all == [i \in 1..Len(texts.runs) |-> i]
    IN  [runs |-> texts.runs, runId |-> found.runId,
         err |-> found.err \/ texts.err \/ ~ValidatePositions(doc, texts.runs, all)]

\* RunParser.Execute once more on a parser that has run before: findRuns
\* appends to the runs the parser holds already
ExecuteAgain(doc, id, rs) ==
    LET st0 == [tmpRun |-> NewEmptyRun(id + 1), runId |-> id + 1, singleton |-> FALSE,
                nestCount |-> 0, runStack |-> <<>>, runs |-> rs]
        st == findRunsLoop(doc, st0, Tokens(doc).toks)
        texts == findTextRuns(doc, st.runs)
        all == [i \in 1..Len(texts.runs) |-> i]
    IN  [runs |-> texts.runs, runId |-> st.runId,
         err |-> st.nestCount # 0 \/ texts.err \/ ~ValidatePositions(doc, texts.runs, all)]

----------------------------------------------------------------------------
(* Placeholders and fragments.  A placeholder is the sequence of its       *)
(* fragments; a fragment is its Position inside the run text and its Run.  *)

NewPlaceholderFragment(number, pos, run) ==
    [Number |-> number, Position |-> pos, Run |-> run]

FragmentStartPos(rs, frag) == rs[frag.Run].Text.OpenTag.End + frag.Position.Start

FragmentEndPos(rs, frag) == rs[frag.Run].Text.OpenTag.End + frag.Position.End

FragmentValid(rs, frag) ==
    /\ PositionValid(rs[frag.Run].OpenTag)
    /\ PositionValid(rs[frag.Run].CloseTag)
    /\ PositionValid(rs[frag.Run].Text.OpenTag)
    /\ PositionValid(rs[frag.Run].Text.CloseTag)
    /\ PositionValid(frag.Position)

PlaceholderValid(rs, ph) == \A f \in 1..Len(ph) : FragmentValid(rs, ph[f])

\* Placeholder.Text slices the buffer once per fragment; FALSE when a slice panics
PlaceholderTextOK(rs, ph, docBytes) ==
    \A f \in 1..Len(ph) :
        SliceOK(docBytes, FragmentStartPos(rs, ph[f]), FragmentEndPos(rs, ph[f]))

PlaceholderText(rs, ph, docBytes) ==
    Concat([f \in 1..Len(ph) |->
              Slice(docBytes, FragmentStartPos(rs, ph[f]), FragmentEndPos(rs, ph[f]))])

PlaceholderStartPos(rs, ph) == FragmentStartPos(rs, ph[1])

PlaceholderEndPos(rs, ph) == FragmentEndPos(rs, ph[Len(ph)])

\* assembleFullPlaceholders; indexing closePos past its end panics
assembleFullPlaceholders(run, openPos, closePos) ==
    [i \in 1..Len(openPos) |->
        <<NewPlaceholderFragment(0, Position(openPos[i], closePos[i] + 1), run)>>]

assembleFullPanics(openPos, closePos) == Len(closePos) < Len(openPos)

isSpecialCase(openPos, closePos) ==
    \E i \in 1..Len(openPos) : openPos[i] > closePos[i] + 1

isNestedCase(openPos, closePos) ==
    /\ Len(openPos) # 1
    /\ openPos[1] < closePos[1]
    /\ openPos[2] < closePos[1]

\* one pass of the loop of ParsePlaceholders, over the run with arena index run
ParseRun(rs, docBytes, st, run) ==
    LET runText == GetText(rs[run], docBytes)
        openPos == FindAllStringIndex(runText, OpenDelimiter)
        closePos == FindAllStringIndex(runText, CloseDelimiter)
        n == Len(openPos)
        m == Len(closePos)
    IN  IF n = m /\ n # 0 THEN
            IF isSpecialCase(openPos, closePos) THEN
                LET inner == assembleFullPlaceholders(run, SubSeq(openPos, 1, n - 1),
                                                      SubSeq(closePos, 2, m))
                    closing == NewPlaceholderFragment(0, Position(0, closePos[1] + 1), run)
                    opening == NewPlaceholderFragment(0, Position(openPos[n], Len(runText)), run)
                IN  IF ~st.hasOpenPlaceholder THEN [st EXCEPT !.err = TRUE]
                    ELSE [st EXCEPT
                            !.placeholders = @ \o inner
                                               \o <<Append(st.unclosedPlaceholder, closing)>>,
                            !.unclosedPlaceholder = <<opening>>,
                            !.hasOpenPlaceholder = TRUE]
            ELSE IF isNestedCase(openPos, closePos) THEN st
            ELSE [st EXCEPT !.placeholders =
                                @ \o assembleFullPlaceholders(run, openPos, closePos)]
        ELSE IF n > m THEN
            IF assembleFullPanics(SubSeq(openPos, 1, n - 1), closePos)
            THEN [st EXCEPT !.panic = TRUE]
            ELSE [st EXCEPT
                    !.placeholders = @ \o assembleFullPlaceholders(run,
                                             SubSeq(openPos, 1, n - 1), closePos),
                    !.unclosedPlaceholder = Append(@,
                        NewPlaceholderFragment(0, Position(openPos[n], Len(runText)), run)),
                    !.hasOpenPlaceholder = TRUE]
        ELSE IF n < m THEN
            LET full == assembleFullPlaceholders(run, openPos, SubSeq(closePos, 1, m - 1))
                closing == NewPlaceholderFragment(0, Position(0, closePos[1] + 1), run)
            IN  IF m = 1
                THEN [st EXCEPT
                        !.placeholders = @ \o full
                                           \o <<Append(st.unclosedPlaceholder, closing)>>,
                        !.unclosedPlaceholder = <<>>,
                        !.hasOpenPlaceholder = FALSE]
                ELSE [st EXCEPT !.placeholders = @ \o full]
        ELSE IF st.hasOpenPlaceholder
        THEN [st EXCEPT !.unclosedPlaceholder = Append(@,
                  NewPlaceholderFragment(0, Position(0, Len(runText)), run))]
        ELSE st

RECURSIVE ParseLoop(_, _, _, _)
ParseLoop(rs, docBytes, st, todo) ==
    IF todo = <<>> \/ st.err \/ st.panic THEN st
    ELSE ParseLoop(rs, docBytes, ParseRun(rs, docBytes, st, Head(todo)), Tail(todo))

\* the filter at the end of ParsePlaceholders
IsProperPlaceholder(rs, docBytes, ph) ==
    /\ PlaceholderValid(rs, ph)
    /\ Contains(PlaceholderText(rs, ph, docBytes), OpenDelimiter)
    /\ Contains(PlaceholderText(rs, ph, docBytes), CloseDelimiter)

\* ParsePlaceholders: the placeholders, or err (an error is returned) or panic
ParsePlaceholders(rs, docBytes) ==
    LET st0 == [placeholders |-> <<>>, unclosedPlaceholder |-> <<>>,
                hasOpenPlaceholder |-> FALSE, err |-> FALSE, panic |-> FALSE]
        st == ParseLoop(rs, docBytes, st0, WithText(rs))
    IN  IF st.err \/ st.panic
        THEN [placeholders |-> <<>>, err |-> st.err, panic |-> st.panic]
        ELSE [placeholders |-> SelectSeq(st.placeholders,
                                   LAMBDA ph : IsProperPlaceholder(rs, docBytes, ph)),
              err |-> FALSE, panic |-> FALSE]

IsDelimitedPlaceholder(s) ==
    IF Len(s) < 1 THEN FALSE
    ELSE s[1] = OpenDelimiter /\ s[Len(s)] = CloseDelimiter

AddPlaceholderDelimiter(s) ==
    IF IsDelimitedPlaceholder(s) THEN s
    ELSE <<OpenDelimiter>> \o s \o <<CloseDelimiter>>

----------------------------------------------------------------------------
(* Replacer.  The operators below work on a record R holding the fields    *)
(* of the Replacer and the run arena its fragments point into:             *)
(*   document, runs, placeholders, ReplaceCount, BytesChanged,             *)
(* panic, set when a slice expression of the code is out of range, and     *)
(* writes, the results of the appends the call has made so far, in order:  *)
(* append(docBytes[:cutStart], ...) writes into the backing array of       *)
(* docBytes whenever the result fits its capacity.                         *)

EscapeChar(c) ==
    CASE c = "&" -> <<"&", "a", "m", "p", ";">>
      [] c = "'" -> <<"&", "#", "3", "9", ";">>
      [] c = "<" -> <<"&", "l", "t", ";">>
      [] c = ">" -> <<"&", "g", "t", ";">>
      [] c = "\"" -> <<"&", "#", "3", "4", ";">>
      [] OTHER -> <<c>>

\* html.EscapeString
EscapeString(s) == Concat([i \in 1..Len(s) |-> EscapeChar(s[i])])

Frag(R, pf) == R.placeholders[pf[1]][pf[2]]

\* every fragment pointer of the placeholders, placeholder by placeholder
AllFragments(phs) ==
    Concat([p \in 1..Len(phs) |-> [f \in 1..Len(phs[p]) |-> <<p, f>>]])

\* placeholdersInRun: a placeholder is appended once per fragment it has in the run
placeholdersInRun(R, run) ==
    Concat([p \in 1..Len(R.placeholders) |->
              [k \in 1..Len(SelectSeq(R.placeholders[p], LAMBDA fr : fr.Run = run)) |-> p]])

fragmentsInRun(R, run) ==
    LET ps == placeholdersInRun(R, run)
    IN  Concat([k \in 1..Len(ps) |->
                  SelectSeq([f \in 1..Len(R.placeholders[ps[k]]) |-> <<ps[k], f>>],
                            LAMBDA pf : Frag(R, pf).Run = run)])

fragmentsFromPosition(R, startingFrom) ==
    SelectSeq(AllFragments(R.placeholders),
              LAMBDA pf : R.runs[Frag(R, pf).Run].OpenTag.Start >= startingFrom)

ShiftAll(R, pf, deltaLength) ==
    LET run == Frag(R, pf).Run
    IN  [R EXCEPT !.runs[run].OpenTag = PositionShift(@, deltaLength),
                  !.runs[run].CloseTag = PositionShift(@, deltaLength),
                  !.runs[run].Text.OpenTag = PositionShift(@, deltaLength),
                  !.runs[run].Text.CloseTag = PositionShift(@, deltaLength)]

ShiftCut(R, pf, cutLength) ==
    LET run == Frag(R, pf).Run
    IN  [R EXCEPT !.runs[run].Text.CloseTag = PositionShift(@, 0 - cutLength),
                  !.runs[run].CloseTag = PositionShift(@, 0 - cutLength),
                  !.placeholders[pf[1]][pf[2]].Position.End = Frag(R, pf).Position.Start]

\* a ShiftReplace that takes the change of length for the new end of the
\* fragment
ShiftReplaceEndAtDelta(R, pf, deltaLength) ==
    LET run == Frag(R, pf).Run
    IN  [R EXCEPT !.runs[run].Text.CloseTag = PositionShift(@, deltaLength),
                  !.runs[run].CloseTag = PositionShift(@, deltaLength),
                  !.placeholders[pf[1]][pf[2]].Position.End = deltaLength]

\* a ShiftReplace that moves the end of the fragment but leaves the closing
\* tags of its run where they were
ShiftReplaceFragmentOnly(R, pf, deltaLength) ==
    [R EXCEPT !.placeholders[pf[1]][pf[2]].Position.End = @ + deltaLength]

ShiftReplace(R, pf, deltaLength) ==
    LET run == Frag(R, pf).Run
    IN  [R EXCEPT !.runs[run].Text.CloseTag = PositionShift(@, deltaLength),
                  !.runs[run].CloseTag = PositionShift(@, deltaLength),
                  !.placeholders[pf[1]][pf[2]].Position.End = @ + deltaLength]

\* a first loop that leaves the fragments sharing the run where they were
shiftSharedNotShifting(R, from, deltaLength, todo) == R

\* first loop of shiftFollowingFragments: the fragments sharing the run
RECURSIVE shiftShared(_, _, _, _)
shiftShared(R, from, deltaLength, todo) ==
    IF todo = <<>> THEN R
    ELSE LET pf == Head(todo)
         IN  IF pf = from \/ Frag(R, from).Position.Start > Frag(R, pf).Position.Start
             THEN shiftShared(R, from, deltaLength, Tail(todo))
             ELSE shiftShared(
                    [R EXCEPT !.placeholders[pf[1]][pf[2]].Position =
                                  PositionShift(@, deltaLength)],
                    from, deltaLength, Tail(todo))

\* second loop: the range runs over the original length n of followingFragments
\* while the body removes elements from the same backing array; st.arr is the
\* backing array and st.len the current length of the slice
RECURSIVE removeHandled(_, _, _, _)
removeHandled(st, shared, i, n) ==
    IF i > n \/ st.panic THEN st
    ELSE IF \E k \in 1..Len(shared) : shared[k] = st.arr[i]
         THEN IF i > st.len
              THEN [st EXCEPT !.panic = TRUE]
              ELSE removeHandled(
                     [st EXCEPT !.arr = SubSeq(@, 1, i - 1) \o SubSeq(@, i + 1, st.len)
                                          \o SubSeq(@, st.len, Len(@)),
                                !.len = @ - 1],
                     shared, i + 1, n)
         ELSE removeHandled(st, shared, i + 1, n)

\* a third loop that shifts the run of every following fragment, whether the
\* run was shifted for another fragment or not
RECURSIVE shiftFollowingEveryFragment(_, _, _, _)
shiftFollowingEveryFragment(R, deltaLength, todo, modifiedRuns) ==
    IF todo = <<>> THEN R
    ELSE shiftFollowingEveryFragment(ShiftAll(R, Head(todo), deltaLength), deltaLength,
                                     Tail(todo), modifiedRuns)

\* third loop: every following run is shifted once
RECURSIVE shiftFollowing(_, _, _, _)
shiftFollowing(R, deltaLength, todo, modifiedRuns) ==
    IF todo = <<>> THEN R
    ELSE LET pf == Head(todo)
         IN  IF Frag(R, pf).Run \in modifiedRuns
             THEN shiftFollowing(R, deltaLength, Tail(todo), modifiedRuns)
             ELSE shiftFollowing(ShiftAll(R, pf, deltaLength), deltaLength, Tail(todo),
                                 modifiedRuns \cup {Frag(R, pf).Run})

shiftFollowingFragments(R, fromFragment, deltaLength) ==
    LET sharedRunFragments == fragmentsInRun(R, Frag(R, fromFragment).Run)
        R1 == shiftShared(R, fromFragment, deltaLength, sharedRunFragments)
        found == fragmentsFromPosition(R1, R1.runs[Frag(R1, fromFragment).Run].Text.OpenTag.End)
        kept == removeHandled([arr |-> found, len |-> Len(found), panic |-> FALSE],
                              sharedRunFragments, 1, Len(found))
    IN  IF kept.panic THEN [R1 EXCEPT !.panic = TRUE]
        ELSE shiftFollowing(R1, deltaLength, SubSeq(kept.arr, 1, kept.len), {})

replaceFragmentValue(R, fragment, value) ==
    LET valueLength == Len(value)
        fragLength == FragmentEndPos(R.runs, Frag(R, fragment))
                        - FragmentStartPos(R.runs, Frag(R, fragment))
        deltaLength == valueLength - fragLength
        cutStart == FragmentStartPos(R.runs, Frag(R, fragment))
        cutEnd == FragmentEndPos(R.runs, Frag(R, fragment))
        docBytes == Slice(R.document, 0, cutStart)
                      \o Slice(R.document, cutEnd, Len(R.document))
        inserted == Slice(docBytes, 0, cutStart) \o value
                      \o Slice(docBytes, cutStart, Len(docBytes))
        R1 == ShiftReplace(R, fragment, deltaLength)
    IN  IF ~(0 <= cutStart /\ cutStart <= Len(R.document)
             /\ 0 <= cutEnd /\ cutEnd <= Len(R.document))
        THEN [R EXCEPT !.panic = TRUE]
        ELSE shiftFollowingFragments(
               [R1 EXCEPT !.document = inserted,
                          !.writes = @ \o <<[bytes |-> docBytes, grows |-> FALSE],
                                            [bytes |-> inserted, grows |-> TRUE]>>,
                          !.ReplaceCount = @ + 1,
                          !.BytesChanged = @ + deltaLength],
               fragment, deltaLength)

\* a cutFragment that counts the cut as a replacement
cutFragmentCounting(R, fragment) ==
    LET cutStart == FragmentStartPos(R.runs, Frag(R, fragment))
        cutEnd == FragmentEndPos(R.runs, Frag(R, fragment))
        cutLength == Frag(R, fragment).Position.End - Frag(R, fragment).Position.Start
        docBytes == Slice(R.document, 0, cutStart)
                      \o Slice(R.document, cutEnd, Len(R.document))
        R1 == ShiftCut(R, fragment, cutLength)
    IN  IF ~(0 <= cutStart /\ cutStart <= Len(R.document)
             /\ 0 <= cutEnd /\ cutEnd <= Len(R.document))
        THEN [R EXCEPT !.panic = TRUE]
        ELSE shiftFollowingFragments(
               [R1 EXCEPT !.document = docBytes,
                          !.writes = Append(@, [bytes |-> docBytes, grows |-> FALSE]),
                          !.ReplaceCount = @ + 1,
                          !.BytesChanged = @ - cutLength],
               fragment, 0 - cutLength)

\* a cutFragment that shifts the spans but leaves the bytes in the buffer
cutFragmentKeepingBytes(R, fragment) ==
    LET cutLength == Frag(R, fragment).Position.End - Frag(R, fragment).Position.Start
    IN  shiftFollowingFragments(
          [ShiftCut(R, fragment, cutLength) EXCEPT !.BytesChanged = @ - cutLength],
          fragment, 0 - cutLength)

cutFragment(R, fragment) ==
    LET cutStart == FragmentStartPos(R.runs, Frag(R, fragment))
        cutEnd == FragmentEndPos(R.runs, Frag(R, fragment))
        cutLength == Frag(R, fragment).Position.End - Frag(R, fragment).Position.Start
        docBytes == Slice(R.document, 0, cutStart)
                      \o Slice(R.document, cutEnd, Len(R.document))
        R1 == ShiftCut(R, fragment, cutLength)
    IN  IF ~(0 <= cutStart /\ cutStart <= Len(R.document)
             /\ 0 <= cutEnd /\ cutEnd <= Len(R.document))
        THEN [R EXCEPT !.panic = TRUE]
        ELSE shiftFollowingFragments(
               [R1 EXCEPT !.document = docBytes,
                          !.writes = Append(@, [bytes |-> docBytes, grows |-> FALSE]),
                          !.BytesChanged = @ - cutLength],
               fragment, 0 - cutLength)

RECURSIVE cutFragments(_, _, _)
cutFragments(R, p, f) ==
    IF f > Len(R.placeholders[p]) \/ R.panic THEN R
    ELSE cutFragments(cutFragment(R, <<p, f>>), p, f + 1)

\* what Replace matches the placeholders against
NormalizeKey(placeholderKey) ==
    IF ~Contains(placeholderKey, OpenDelimiter) \/ ~Contains(placeholderKey, CloseDelimiter)
    THEN AddPlaceholderDelimiter(placeholderKey)
    ELSE placeholderKey

\* the loop of Replace over r.placeholders, from index i on
RECURSIVE ReplaceLoop(_, _, _, _)
ReplaceLoop(st, placeholderKey, value, i) ==
    IF i > Len(st.R.placeholders) \/ st.R.panic THEN st
    ELSE IF ~PlaceholderTextOK(st.R.runs, st.R.placeholders[i], st.R.document)
    THEN [st EXCEPT !.R.panic = TRUE]
    ELSE IF PlaceholderText(st.R.runs, st.R.placeholders[i], st.R.document) = placeholderKey
    THEN LET R1 == replaceFragmentValue(st.R, <<i, 1>>, EscapeString(value))
         IN  ReplaceLoop([R |-> cutFragments(R1, i, 2), found |-> TRUE,
                          hits |-> Append(st.hits, i)],
                         placeholderKey, value, i + 1)
    ELSE ReplaceLoop(st, placeholderKey, value, i + 1)

\* Replacer.Replace: the Replacer afterwards, and the errors it can return
Replace(R, dr, placeholderKey, value) ==
    LET st == ReplaceLoop([R |-> R, found |-> FALSE, hits |-> <<>>],
                          NormalizeKey(placeholderKey), value, 1)
    IN  [R |-> st.R, hits |-> st.hits,
         errs |-> IF st.R.panic THEN {"panic"}
                  ELSE { IF v # "ok" THEN v
                         ELSE IF ~st.found THEN "ErrPlaceholderNotFound"
                         ELSE "nil"
                         : v \in ValidateOutcomes(st.R.document, st.R.runs, dr) }]

\* what a write of w into the backing array leaves in the first Len(array) bytes
Overlay(array, w) ==
    [i \in 1..Len(array) |-> IF i <= Len(w) THEN w[i] ELSE array[i]]

\* the spare capacity the backing array can have behind the file's bytes: it
\* is the allocator's choice (bytes.Buffer.ReadFrom, append)
MaxSpare == 1
Spares == 0..MaxSpare

\* the file's slice after the appends of a Replace call: a cut is always made
\* in place, a growing append is made in place when the result fits the
\* capacity and moves Replacer.document to a new array otherwise
RECURSIVE AfterWrites(_, _, _)
AfterWrites(f, writes, spare) ==
    IF writes = <<>> \/ ~f.shared THEN f
    ELSE LET w == Head(writes)
         IN  IF w.grows /\ Len(w.bytes) > Len(f.array) + spare
             THEN [f EXCEPT !.shared = FALSE]
             ELSE AfterWrites([f EXCEPT !.array = Overlay(@, w.bytes)],
                              Tail(writes), spare)

\* getDistinctRuns: seen() compares the stored IDs with the package counter
\* runId, not with its parameter
RECURSIVE getDistinctRunsLoop(_, _, _, _, _)
getDistinctRunsLoop(rs, id, todo, seenRuns, out) ==
    IF todo = <<>> THEN out
    ELSE LET run == Head(todo)
             seen == \E k \in 1..Len(seenRuns) : id = seenRuns[k]
         IN  IF ~seen
             THEN getDistinctRunsLoop(rs, id, Tail(todo),
                                      Append(seenRuns, rs[run].ID), Append(out, run))
             ELSE getDistinctRunsLoop(rs, id, Tail(todo), seenRuns, out)

getDistinctRuns(rs, id, phs) ==
    getDistinctRunsLoop(rs, id,
        Concat([p \in 1..Len(phs) |-> [f \in 1..Len(phs[p]) |-> phs[p][f].Run]]),
        <<>>, <<>>)

----------------------------------------------------------------------------
(* The buffers the model starts from: up to MaxRuns run elements in a row, *)
(* each a run with a text, or a run that encloses another run.             *)

RunWithText(t) == RunOpenStr \o TextOpenStr \o t \o TextCloseStr \o RunCloseStr

\* <w:r> <w:r><w:t>inner</w:t></w:r> <w:t>outer</w:t> </w:r>
NestedRun(inner, outer) ==
    RunOpenStr \o RunWithText(inner) \o TextOpenStr \o outer \o TextCloseStr \o RunCloseStr

Texts ==
    { <<"{", "a", "}">>,
      <<"{", "f", "o">>,
      <<"o", "}">>,
      <<"{", "f", "o", "o", "}">>,
      <<"{", "a", "}", "{", "a", "}", "x", "{", "a", "}">>,
      <<"x">> }

Elements ==
    {RunWithText(t) : t \in Texts}
      \cup { NestedRun(<<"{", "f", "o">>, <<"o", "}">>),
             NestedRun(<<"{", "a", "}", "{", "a", "}">>, <<"{", "f", "o", "o", "}">>) }

RECURSIVE SeqsUpTo(_, _)
SeqsUpTo(S, n) ==
    IF n = 0 THEN {<<>>}
    ELSE LET shorter == SeqsUpTo(S, n - 1)
         IN  shorter \cup {Append(q, x) : q \in shorter, x \in S}

Documents == {Concat(q) : q \in SeqsUpTo(Elements, MaxRuns) \ {<<>>}}

Keys == { <<"a">>, <<"f", "o", "o">> }

Values == { <<"X">>, <<"{", "a", "}">>, <<"<">> }

\* the local variables of ParsePlaceholders before its loop
NewParse ==
    [placeholders |-> <<>>, unclosedPlaceholder |-> <<>>,
     hasOpenPlaceholder |-> FALSE, err |-> FALSE, panic |-> FALSE]

\* st: the local variables of the loop; todo: the runs it has still to take;
\* run: the run it took last (0: none yet); before: st before that run
NoScan == [st |-> NewParse, todo |-> <<>>, run |-> 0, before |-> NewParse]

\* the goroutines that share one Replacer
MaxGoroutines == 2
Goroutines == 1..MaxGoroutines

\* a goroutine that has not called anything yet
Idle ==
    [at |-> "idle", op |-> "none", key |-> <<>>, value |-> <<>>, i |-> 0, f |-> 0,
     found |-> FALSE, err |-> "nil", entry |-> <<>>, seen |-> <<>>, holder |-> 0]

\* last.before is the Replacer as the call found it, last.hits the indices of the
\* placeholders the call matched
NoCall ==
    [op |-> "none", key |-> <<>>, value |-> <<>>, err |-> "nil", hits |-> <<>>,
     before |-> <<>>]

Replacer ==
    [document |-> document, runs |-> runs, placeholders |-> placeholders,
     ReplaceCount |-> ReplaceCount, BytesChanged |-> BytesChanged, panic |-> FALSE,
     writes |-> <<>>]

InitWith(docs) ==
    /\ phase = "new"
    /\ document \in docs
    /\ runs = <<>>
    /\ runId = 0
    /\ placeholders = <<>>
    /\ distinctRuns = <<>>
    /\ ReplaceCount = 0
    /\ BytesChanged = 0
    /\ parsed = <<>>
    /\ spent = {}
    /\ calls = 0
    /\ last = NoCall
    /\ files = [array |-> document, shared |-> TRUE]
    /\ mu = 0
    /\ goroutines = [g \in Goroutines |-> Idle]
    /\ scan = NoScan

Init == InitWith(Documents)

\* newDocument, first half: NewRunParser(data).Execute()
Locate ==
    /\ phase = "new"
    /\ LET res == Execute(document, runId)
       IN  /\ runs' = res.runs
           /\ runId' = res.runId
           /\ phase' = IF res.err THEN "failed" ELSE "located"
    /\ UNCHANGED <<document, placeholders, distinctRuns, ReplaceCount, BytesChanged,
                   parsed, spent, calls, last, files, mu, goroutines, scan>>

\* newDocument, second half: ParsePlaceholders, then NewReplacer
Assemble ==
    /\ phase = "located"
    /\ LET res == ParsePlaceholders(runs, document)
       IN  /\ phase' = IF res.panic THEN "crashed"
                       ELSE IF res.err THEN "failed" ELSE "ready"
           /\ placeholders' = res.placeholders
           /\ parsed' = [p \in 1..Len(res.placeholders) |->
                           PlaceholderText(runs, res.placeholders[p], document)]
           /\ distinctRuns' = getDistinctRuns(runs, runId, res.placeholders)
    /\ ReplaceCount' = 0
    /\ BytesChanged' = 0
    /\ UNCHANGED <<document, runs, runId, spent, calls, last, files, mu, goroutines, scan>>

\* one call of Replacer.Replace on a Replacer the caller has made with
\* NewReplacer, as the package's tests do: no Document holds the buffer
ReplaceCall(key, value) ==
    /\ phase = "ready"
    /\ calls < MaxCalls
    /\ LET res == Replace(Replacer, distinctRuns, key, value)
       IN  /\ document' = res.R.document
           /\ runs' = res.R.runs
           /\ placeholders' = res.R.placeholders
           /\ ReplaceCount' = res.R.ReplaceCount
           /\ BytesChanged' = res.R.BytesChanged
           /\ \E err \in res.errs :
                 last' = [op |-> "Replace", key |-> key, value |-> value,
                          err |-> err, hits |-> res.hits, before |-> Replacer]
           /\ spent' = spent \cup {res.hits[k] : k \in 1..Len(res.hits)}
    /\ calls' = calls + 1
    /\ UNCHANGED <<phase, runId, distinctRuns, parsed, files, mu, goroutines, scan>>

Next ==
    \/ Locate
    \/ Assemble
    \/ \E key \in Keys, value \in Values : ReplaceCall(key, value)

Spec == Init /\ [][Next]_vars

----------------------------------------------------------------------------
(* Document.ReplaceAll and Document.Replace on the one file of the model.  *)
(* The loop over d.files has one iteration; the PlaceholderMap is given as *)
(* the sequence of its entries in the order the range statement takes them.*)

MaxBatchRuns == 1
MaxBatches == 2

Letters == {"a", "b", "f", "g", "l", "m", "o", "p", "r", "t", "w", "x", "z", "X"}

IsSpace(c) == c \in {" ", "\t", "\n", "\r"}

\* the entities html.EscapeString writes, read back
RECURSIVE UnescapeString(_)
UnescapeString(s) ==
    IF s = <<>> THEN <<>>
    ELSE IF Len(s) >= 4 /\ SubSeq(s, 1, 4) = <<"&", "l", "t", ";">>
    THEN <<"<">> \o UnescapeString(SubSeq(s, 5, Len(s)))
    ELSE IF Len(s) >= 4 /\ SubSeq(s, 1, 4) = <<"&", "g", "t", ";">>
    THEN <<">">> \o UnescapeString(SubSeq(s, 5, Len(s)))
    ELSE IF Len(s) >= 5 /\ SubSeq(s, 1, 5) = <<"&", "a", "m", "p", ";">>
    THEN <<"&">> \o UnescapeString(SubSeq(s, 6, Len(s)))
    ELSE IF Len(s) >= 5 /\ SubSeq(s, 1, 5) = <<"&", "#", "3", "4", ";">>
    THEN <<"\"">> \o UnescapeString(SubSeq(s, 6, Len(s)))
    ELSE IF Len(s) >= 5 /\ SubSeq(s, 1, 5) = <<"&", "#", "3", "9", ";">>
    THEN <<"'">> \o UnescapeString(SubSeq(s, 6, Len(s)))
    ELSE <<Head(s)>> \o UnescapeString(Tail(s))

RECURSIVE TrimSpace(_)
TrimSpace(s) ==
    IF s = <<>> THEN s
    ELSE IF IsSpace(s[1]) THEN TrimSpace(Tail(s))
    ELSE IF IsSpace(s[Len(s)]) THEN TrimSpace(SubSeq(s, 1, Len(s) - 1))
    ELSE s

\* what stripXmlTags adds for a text token: tokenizer.Text() is the token
\* unescaped, and html.UnescapeString is applied to it once more
TxtContent(text) == TrimSpace(UnescapeString(UnescapeString(text)))

\* the html.Tokenizer loop of stripXmlTags from element i on: a tag runs from a
\* '<' followed by a letter or '/' to the next '>', anything else is text; a
\* tag that is not closed ends the input
RECURSIVE stripFrom(_, _, _)
stripFrom(data, i, text) ==
    IF i > Len(data) THEN TxtContent(text)
    ELSE IF data[i] = "<" /\ i < Len(data) /\ data[i + 1] \in Letters \cup {"/"}
    THEN LET close == IndexFrom(data, ">", i)
         IN  IF close = 0 THEN TxtContent(text)
             ELSE TxtContent(text) \o stripFrom(data, close + 1, <<>>)
    ELSE stripFrom(data, i + 1, Append(text, data[i]))

stripXmlTags(data) == stripFrom(data, 1, <<>>)

\* strings.Count: the occurrences of w in s that do not overlap, from element i on
RECURSIVE CountFrom(_, _, _)
CountFrom(s, w, i) ==
    IF w = <<>> THEN Len(s) + 1
    ELSE IF i + Len(w) - 1 > Len(s) THEN 0
    ELSE IF SubSeq(s, i, i + Len(w) - 1) = w THEN 1 + CountFrom(s, w, i + Len(w))
    ELSE CountFrom(s, w, i + 1)

RECURSIVE countPlaceholdersFrom(_, _, _)
countPlaceholdersFrom(plaintext, order, i) ==
    IF i > Len(order) THEN 0
    ELSE CountFrom(plaintext, AddPlaceholderDelimiter(order[i].key), 1)
           + countPlaceholdersFrom(plaintext, order, i + 1)

\* Document.countPlaceholders on the bytes GetFile returns
countPlaceholders(data, order) == countPlaceholdersFrom(stripXmlTags(data), order, 1)

\* a loop over the map that returns the first error of Replace, whatever it is
RECURSIVE replaceEachStoppingAtNotFound(_, _, _, _, _)
replaceEachStoppingAtNotFound(R, dr, order, i, trace) ==
    IF i > Len(order) THEN {[R |-> R, trace |-> trace, err |-> "nil"]}
    ELSE LET res == Replace(R, dr, order[i].key, order[i].value)
         IN  UNION { LET t == Append(trace, [key |-> order[i].key, err |-> e,
                                             hits |-> res.hits])
                     IN  IF e = "nil"
                         THEN replaceEachStoppingAtNotFound(res.R, dr, order, i + 1, t)
                         ELSE {[R |-> res.R, trace |-> t, err |-> e]}
                     : e \in res.errs }

\* the loop of Document.replace over the map, from entry i on: the Replacers it
\* can end with, the Replace calls it has made and the error it stops with
RECURSIVE replaceEach(_, _, _, _, _)
replaceEach(R, dr, order, i, trace) ==
    IF i > Len(order) THEN {[R |-> R, trace |-> trace, err |-> "nil"]}
    ELSE LET res == Replace(R, dr, order[i].key, order[i].value)
         IN  UNION { LET t == Append(trace, [key |-> order[i].key, err |-> e,
                                             hits |-> res.hits])
                     IN  IF e \in {"nil", "ErrPlaceholderNotFound"}
                         THEN replaceEach(res.R, dr, order, i + 1, t)
                         ELSE {[R |-> res.R, trace |-> t, err |-> e]}
                     : e \in res.errs }

\* Document.replace
DocumentReplace(R, dr, data, order) ==
    LET placeholderCount == countPlaceholders(data, order)
    IN  { IF o.err = "nil" /\ placeholderCount # o.R.ReplaceCount
          THEN [o EXCEPT !.err = "notAllReplaced"]
          ELSE o
          : o \in replaceEach(R, dr, order, 1, <<>>) }

\* the entries of a PlaceholderMap
Entry(k, v) == [key |-> k, value |-> v]

BatchMaps ==
    { {Entry(<<"a">>, <<"X">>)},
      {Entry(<<"b">>, <<"<">>)},
      {Entry(<<"z">>, <<"X">>), Entry(<<"a">>, <<"X">>)},
      {Entry(<<"a">>, <<"X">>), Entry(<<"b">>, <<"<">>)} }

\* the orders in which range can take the entries of a map
OrdersOf(m) ==
    {q \in SeqsUpTo(m, Cardinality(m)) :
        Len(q) = Cardinality(m) /\ \A i, j \in 1..Len(q) : i # j => q[i] # q[j]}

BatchOrders == UNION {OrdersOf(m) : m \in BatchMaps}

BatchElements ==
    { RunWithText(<<"{", "a", "}">>),
      RunWithText(<<"{", "a", "}", "{", "b", "}">>),
      RunWithText(<<"{", "b", "}", "x", "{", "a", "}">>),
      RunWithText(<<"{", "a">>) \o RunWithText(<<"}", "{", "b", "}">>),
      NestedRun(<<"{", "a", "}">>, <<"{", "b", "}">>),
      NestedRun(<<"{", "b", "}">>, <<"{", "a", "}">>) }

BatchDocuments == {Concat(q) : q \in SeqsUpTo(BatchElements, MaxBatchRuns) \ {<<>>}}

\* one call of Document.ReplaceAll, or of Document.Replace with a map of one
\* entry: SetFile is reached when Document.replace returns no error
ReplaceAllCall(order) ==
    /\ phase = "ready"
    /\ calls < MaxBatches
    /\ \E o \in DocumentReplace(Replacer, distinctRuns, files.array, order) :
          /\ document' = o.R.document
          /\ runs' = o.R.runs
          /\ placeholders' = o.R.placeholders
          /\ ReplaceCount' = o.R.ReplaceCount
          /\ BytesChanged' = o.R.BytesChanged
          /\ last' = [op |-> "ReplaceAll", order |-> order, err |-> o.err,
                      trace |-> o.trace, before |-> Replacer, filesBefore |-> files,
                      earlier |-> IF last.op = "ReplaceAll" THEN last.err ELSE "none"]
          /\ spent' = spent \cup UNION { {o.trace[c].hits[k] : k \in 1..Len(o.trace[c].hits)}
                                         : c \in 1..Len(o.trace) }
          /\ files' \in IF o.err = "nil"
                        THEN {[array |-> o.R.document, shared |-> TRUE]}
                        ELSE {AfterWrites(files, o.R.writes, spare) : spare \in Spares}
    /\ calls' = calls + 1
    /\ UNCHANGED <<phase, runId, distinctRuns, parsed, mu, goroutines, scan>>

InitBatch == InitWith(BatchDocuments)

NextBatch ==
    \/ Locate
    \/ Assemble
    \/ \E order \in BatchOrders : ReplaceAllCall(order)

SpecBatch == InitBatch /\ [][NextBatch]_vars

----------------------------------------------------------------------------
(* Goroutines that share one Replacer.  A call of Replace is taken apart   *)
(* into the steps between which another goroutine can run: the call, the   *)
(* return of r.mu.Lock(), each iteration of the loop over r.placeholders   *)
(* and each cut of a later fragment, and the validation with the deferred  *)
(* r.mu.Unlock().  Bytes() takes no lock.                                   *)

ConcDocuments ==
    { RunWithText(<<"{", "a", "}", "{", "b", "}">>),
      RunWithText(<<"{", "a">>) \o RunWithText(<<"}">>),
      RunWithText(<<"{", "a">>) \o RunWithText(<<"}", "x">>)
         \o RunWithText(<<"{", "b", "}">>) }

ConcKeys == { <<"a">>, <<"b">> }

ConcValues == { <<"X">> }

\* a Lock that returns at once, whoever holds the mutex
LockWithoutWaiting(m) == TRUE

\* sync.Mutex.Lock returns when the mutex is free
LockReturns(m) == m = 0

\* a goroutine calls r.Replace(key, value) and reaches r.mu.Lock()
CallReplace(g, key, value) ==
    /\ phase = "ready"
    /\ goroutines[g].at = "idle"
    /\ goroutines' = [goroutines EXCEPT ![g] =
                        [Idle EXCEPT !.at = "waiting", !.op = "Replace",
                                     !.key = key, !.value = value]]
    /\ UNCHANGED <<phase, document, runs, runId, placeholders, distinctRuns,
                   ReplaceCount, BytesChanged, parsed, spent, calls, last, files, mu, scan>>

\* r.mu.Lock() returns; the key is normalised; last records the Replacer the
\* first call found and the calls in the order they took the mutex
Lock(g) ==
    /\ phase = "ready"
    /\ goroutines[g].at = "waiting"
    /\ LockReturns(mu)
    /\ mu' = g
    /\ goroutines' = [goroutines EXCEPT ![g] =
                        [@ EXCEPT !.at = "editing", !.key = NormalizeKey(@),
                                  !.i = 1, !.f = 1, !.entry = document]]
    /\ last' = IF last.op = "none"
               THEN [op |-> "Goroutines", before |-> Replacer,
                     order |-> <<[key |-> goroutines[g].key,
                                  value |-> goroutines[g].value]>>]
               ELSE [last EXCEPT !.order = Append(@, [key |-> goroutines[g].key,
                                                      value |-> goroutines[g].value])]
    /\ UNCHANGED <<phase, document, runs, runId, placeholders, distinctRuns,
                   ReplaceCount, BytesChanged, parsed, spent, calls, files, scan>>

\* a loop of Replace that looks at a placeholder again after it has replaced it
AfterFragmentSamePlaceholder(phs, i, f) ==
    IF f < Len(phs[i]) THEN <<i, f + 1>> ELSE <<i, 1>>

\* where the loop of Replace stands after the edit of fragment f of placeholder i
AfterFragment(phs, i, f) ==
    IF f < Len(phs[i]) THEN <<i, f + 1>> ELSE <<i + 1, 1>>

\* one step of the loop of Replace: the comparison of placeholder i with the
\* key and, on a match, the replacement of its first fragment; or the cut of
\* its fragment f
EditStep(g) ==
    /\ phase = "ready"
    /\ goroutines[g].at = "editing"
    /\ LET me == goroutines[g]
           R == Replacer
           matches == PlaceholderText(runs, placeholders[me.i], document) = me.key
           R1 == IF me.f = 1
                 THEN IF ~PlaceholderTextOK(runs, placeholders[me.i], document)
                      THEN [R EXCEPT !.panic = TRUE]
                      ELSE IF matches
                      THEN replaceFragmentValue(R, <<me.i, 1>>, EscapeString(me.value))
                      ELSE R
                 ELSE cutFragment(R, <<me.i, me.f>>)
           edited == me.f > 1 \/ (PlaceholderTextOK(runs, placeholders[me.i], document)
                                  /\ matches)
           next == IF edited THEN AfterFragment(placeholders, me.i, me.f)
                   ELSE <<me.i + 1, 1>>
       IN  IF me.i > Len(placeholders)
           THEN /\ goroutines' = [goroutines EXCEPT ![g].at = "validate"]
                /\ UNCHANGED <<phase, document, runs, placeholders, ReplaceCount,
                               BytesChanged, spent>>
           ELSE /\ phase' = IF R1.panic THEN "crashed" ELSE phase
                /\ document' = R1.document
                /\ runs' = R1.runs
                /\ placeholders' = R1.placeholders
                /\ ReplaceCount' = R1.ReplaceCount
                /\ BytesChanged' = R1.BytesChanged
                /\ spent' = IF edited THEN spent \cup {me.i} ELSE spent
                /\ goroutines' = [goroutines EXCEPT ![g] =
                                    [@ EXCEPT !.i = next[1], !.f = next[2],
                                              !.found = @ \/ edited]]
    /\ UNCHANGED <<runId, distinctRuns, parsed, calls, last, files, mu, scan>>

\* the end of Replace: ValidatePositions, the error, the deferred Unlock
Return(g) ==
    /\ phase = "ready"
    /\ goroutines[g].at = "validate"
    /\ \E v \in ValidateOutcomes(document, runs, distinctRuns) :
          goroutines' = [goroutines EXCEPT ![g] =
                            [@ EXCEPT !.at = "returned",
                                      !.err = IF v # "ok" THEN v
                                              ELSE IF ~goroutines[g].found
                                              THEN "ErrPlaceholderNotFound"
                                              ELSE "nil"]]
    /\ mu' = 0
    /\ calls' = calls + 1
    /\ UNCHANGED <<phase, document, runs, runId, placeholders, distinctRuns,
                   ReplaceCount, BytesChanged, parsed, spent, last, files, scan>>

\* what a read of r.document can give: the buffer as it is; and, when a
\* Replace call is under way (a data race: the read is not ordered with the
\* writes of the call), also the buffer as that call found it
BytesOutcomes ==
    {document} \cup {goroutines[h].entry : h \in {k \in Goroutines : k = mu}}

\* Replacer.Bytes(): returns r.document without taking r.mu
Bytes(g) ==
    /\ phase = "ready"
    /\ goroutines[g].at = "idle"
    /\ \E b \in BytesOutcomes :
          goroutines' = [goroutines EXCEPT ![g] =
                            [Idle EXCEPT !.at = "returned", !.op = "Bytes",
                                         !.seen = b, !.holder = mu]]
    /\ UNCHANGED <<phase, document, runs, runId, placeholders, distinctRuns,
                   ReplaceCount, BytesChanged, parsed, spent, calls, last, files, mu, scan>>

InitConc == InitWith(ConcDocuments)

NextConc ==
    \/ Locate
    \/ Assemble
    \/ \E g \in Goroutines, key \in ConcKeys, value \in ConcValues :
          CallReplace(g, key, value)
    \/ \E g \in Goroutines : Lock(g)
    \/ \E g \in Goroutines : EditStep(g)
    \/ \E g \in Goroutines : Return(g)
    \/ \E g \in Goroutines : Bytes(g)

SpecConc == InitConc /\ [][NextConc]_vars

----------------------------------------------------------------------------
(* ParsePlaceholders followed run by run: one step per iteration of its    *)
(* loop over runs.WithText(), then the filter and the return.              *)

MaxScanRuns == 3

ScanTexts ==
    { <<"{", "a">>,
      <<"}">>,
      <<"}", "{", "b">>,
      <<"}", "x", "{", "b">>,
      <<"}", "{", "a", "}">>,
      <<"}", "x", "{", "a", "}", "x", "{", "b">>,
      <<"{", "a", "}">> }

ScanDocuments ==
    {Concat(q) : q \in SeqsUpTo({RunWithText(t) : t \in ScanTexts}, MaxScanRuns) \ {<<>>}}

\* a return that hands out the placeholders found before the error
ParseResultKeepingPlaceholders(rs, docBytes, st) ==
    [placeholders |-> SelectSeq(st.placeholders,
                          LAMBDA ph : IsProperPlaceholder(rs, docBytes, ph)),
     err |-> st.err, panic |-> st.panic]

\* what ParsePlaceholders returns when its loop has ended with the variables st
ParseResult(rs, docBytes, st) ==
    IF st.err \/ st.panic
    THEN [placeholders |-> <<>>, err |-> st.err, panic |-> st.panic]
    ELSE [placeholders |-> SelectSeq(st.placeholders,
                               LAMBDA ph : IsProperPlaceholder(rs, docBytes, ph)),
          err |-> FALSE, panic |-> FALSE]

\* ParsePlaceholders is entered
BeginParse ==
    /\ phase = "located"
    /\ phase' = "parsing"
    /\ scan' = [NoScan EXCEPT !.todo = WithText(runs)]
    /\ UNCHANGED <<document, runs, runId, placeholders, distinctRuns, ReplaceCount,
                   BytesChanged, parsed, spent, calls, last, files, mu, goroutines>>

\* one iteration of the loop
ScanRun ==
    /\ phase = "parsing"
    /\ scan.todo # <<>>
    /\ ~scan.st.err
    /\ ~scan.st.panic
    /\ scan' = [st |-> ParseRun(runs, document, scan.st, Head(scan.todo)),
                todo |-> Tail(scan.todo),
                run |-> Head(scan.todo),
                before |-> scan.st]
    /\ UNCHANGED <<phase, document, runs, runId, placeholders, distinctRuns,
                   ReplaceCount, BytesChanged, parsed, spent, calls, last, files,
                   mu, goroutines>>

\* the loop is left: the filter, the return, and NewReplacer in newDocument
EndParse ==
    /\ phase = "parsing"
    /\ scan.todo = <<>> \/ scan.st.err \/ scan.st.panic
    /\ LET res == ParseResult(runs, document, scan.st)
       IN  /\ phase' = IF res.panic THEN "crashed"
                       ELSE IF res.err THEN "failed" ELSE "ready"
           /\ placeholders' = res.placeholders
           /\ parsed' = [p \in 1..Len(res.placeholders) |->
                           PlaceholderText(runs, res.placeholders[p], document)]
           /\ distinctRuns' = getDistinctRuns(runs, runId, res.placeholders)
    /\ ReplaceCount' = 0
    /\ BytesChanged' = 0
    /\ UNCHANGED <<document, runs, runId, spent, calls, last, files, mu, goroutines,
                   scan>>

InitScan == InitWith(ScanDocuments)

NextScan == Locate \/ BeginParse \/ ScanRun \/ EndParse

SpecScan == InitScan /\ [][NextScan]_vars

----------------------------------------------------------------------------
(* One caller that makes its Replace calls one after the other, each call  *)
(* followed edit by edit.                                                  *)

MaxEditCalls == 2

EditDocuments ==
    { RunWithText(<<"{", "a", "}">>) \o RunWithText(<<"{", "a", "}", "{", "b", "}">>),
      RunWithText(<<"{", "a">>) \o RunWithText(<<"}">>) \o RunWithText(<<"{", "b", "}">>),
      RunWithText(<<"{", "a", "}", "{", "b", "}", "{", "a", "}">>),
      NestedRun(<<"{", "a">>, <<"}">>),
      NestedRun(<<"{", "a", "}">>, <<"{", "b", "}">>),
      RunWithText(<<"{", "b", "}">>) \o NestedRun(<<"{", "a", "}">>, <<"{", "b", "}">>),
      NestedRun(<<"{", "a">>, <<"}">>) \o RunWithText(<<"{", "a", "}">>) }

EditKeys == { <<"a">>, <<"b">> }

EditValues == { <<>>, <<"X">>, <<"<">> }

\* the caller
Caller == 1

\* Replace has returned to the caller, who goes on to the next call
NextCall ==
    /\ phase = "ready"
    /\ goroutines[Caller].at = "returned"
    /\ calls < MaxEditCalls
    /\ goroutines' = [goroutines EXCEPT ![Caller] = Idle]
    /\ UNCHANGED <<phase, document, runs, runId, placeholders, distinctRuns,
                   ReplaceCount, BytesChanged, parsed, spent, calls, last, files,
                   mu, scan>>

InitEdit == InitWith(EditDocuments)

NextEdit ==
    \/ Locate
    \/ Assemble
    \/ \E key \in EditKeys, value \in EditValues : CallReplace(Caller, key, value)
    \/ Lock(Caller)
    \/ EditStep(Caller)
    \/ Return(Caller)
    \/ NextCall

SpecEdit == InitEdit /\ [][NextEdit]_vars

----------------------------------------------------------------------------
(* The validator on its own: the runs of a buffer with one span moved.     *)

MaxMove == 1

Moves == (0 - MaxMove)..MaxMove

ValidateDocuments ==
    { RunWithText(<<"x">>),
      RunWithText(<<"x">>) \o RunWithText(<<"y">>),
      RunSingletonStr \o RunWithText(<<"x">>),
      RunOpenStr \o RunCloseStr \o RunWithText(<<"x">>),
      NestedRun(<<"x">>, <<"y">>) }

\* span k of a run: OpenTag, CloseTag, Text.OpenTag, Text.CloseTag
SpanMoved(run, k, ds, de) ==
    CASE k = 1 -> [run EXCEPT !.OpenTag = Position(@.Start + ds, @.End + de)]
      [] k = 2 -> [run EXCEPT !.CloseTag = Position(@.Start + ds, @.End + de)]
      [] k = 3 -> [run EXCEPT !.Text.OpenTag = Position(@.Start + ds, @.End + de)]
      [] k = 4 -> [run EXCEPT !.Text.CloseTag = Position(@.Start + ds, @.End + de)]

\* the runs a caller hands to ValidatePositions: those of the buffer, one
\* span of one run moved at its start and at its end
MoveSpan ==
    /\ phase = "located"
    /\ \E r \in 1..Len(runs), k \in 1..4, ds \in Moves, de \in Moves :
          /\ k \in {3, 4} => runs[r].HasText
          /\ runs' = [runs EXCEPT ![r] = SpanMoved(@, k, ds, de)]
          /\ last' = [op |-> "ValidatePositions", run |-> r, span |-> k,
                      ds |-> ds, de |-> de, outcome |-> "none"]
    /\ phase' = "moved"
    /\ UNCHANGED <<document, runId, placeholders, distinctRuns, ReplaceCount,
                   BytesChanged, parsed, spent, calls, files, mu, goroutines, scan>>

\* ValidatePositions(document, runs)
Validate ==
    /\ phase = "moved"
    /\ \E v \in ValidateOutcomes(document, runs, [i \in 1..Len(runs) |-> i]) :
          last' = [last EXCEPT !.outcome = v]
    /\ phase' = "validated"
    /\ UNCHANGED <<document, runs, runId, placeholders, distinctRuns, ReplaceCount,
                   BytesChanged, parsed, spent, calls, files, mu, goroutines, scan>>

InitValidate == InitWith(ValidateDocuments)

NextValidate == Locate \/ MoveSpan \/ Validate

SpecValidate == InitValidate /\ [][NextValidate]_vars

----------------------------------------------------------------------------
(* The caller of SpecEdit with values that read as a key, and a scheduler  *)
(* that lets a goroutine that can take a step take it.                     *)

LoopDocuments ==
    { RunWithText(<<"{", "a", "}", "{", "a", "}">>),
      RunWithText(<<"{", "a", "}">>) \o RunWithText(<<"{", "b", "}", "{", "a", "}">>),
      RunWithText(<<"{", "a">>) \o RunWithText(<<"}">>) \o RunWithText(<<"{", "a", "}">>) }

LoopValues == { <<"{", "a", "}">>, <<"{", "b", "}">>, <<"X">> }

InitLoop == InitWith(LoopDocuments)

NextLoop ==
    \/ Locate
    \/ Assemble
    \/ \E key \in EditKeys, value \in LoopValues : CallReplace(Caller, key, value)
    \/ Lock(Caller)
    \/ EditStep(Caller)
    \/ Return(Caller)
    \/ NextCall

\* the loop of Replace can take a step: EditStep(Caller) is enabled
InLoop == phase = "ready" /\ goroutines[Caller].at = "editing"

\* the caller's goroutine has taken a step
CallerSteps == goroutines'[Caller] # goroutines[Caller]

\* a goroutine that can run does run: weak fairness of the three steps of a
\* call, the one of EditStep with its enabling condition written out
SpecLoop ==
    /\ InitLoop
    /\ [][NextLoop]_vars
    /\ WF_vars(Lock(Caller))
    /\ ([]<>(~InLoop) \/ []<><<CallerSteps>>_vars)
    /\ WF_vars(Return(Caller))

----------------------------------------------------------------------------
(* The assembler on its own: buffers of up to MaxParseRuns runs in a row,  *)
(* with run texts that open, close, continue and chain placeholders.       *)

MaxParseRuns == 3

ParseTexts ==
    { <<"{", "a", "}">>,
      <<"{", "a">>,
      <<"a", "}">>,
      <<"a">>,
      <<"}">>,
      <<"}", "{", "a", "}">>,
      <<"}", "{", "a">>,
      <<"}", "a", "{", "a">> }

ParseDocuments ==
    {Concat(q) : q \in SeqsUpTo({RunWithText(t) : t \in ParseTexts}, MaxParseRuns) \ {<<>>}}

InitParse == InitWith(ParseDocuments)

NextParse == Locate \/ Assemble

SpecParse == InitParse /\ [][NextParse]_vars

----------------------------------------------------------------------------
(* Replace with keys that hold delimiters themselves.                      *)

MaxKeyRuns == 2

KeyTexts ==
    { <<"{", "f", "o", "o", "}">>,
      <<"{", "{", "}", "{", "}">> }

KeyDocuments ==
    {Concat(q) : q \in SeqsUpTo({RunWithText(t) : t \in KeyTexts}, MaxKeyRuns) \ {<<>>}}

DelimitedKeys == { <<"f", "o", "o">>, <<"{", "f", "o", "o", "}">>, <<"}", "{">> }

InitKeys == InitWith(KeyDocuments)

NextKeys ==
    \/ Locate
    \/ Assemble
    \/ \E key \in DelimitedKeys, value \in Values : ReplaceCall(key, value)

SpecKeys == InitKeys /\ [][NextKeys]_vars

----------------------------------------------------------------------------
(* ParsePlaceholders on run texts whose delimiters are nested or do not    *)
(* balance within the run.                                                 *)

MaxDelimRuns == 2

DelimTexts ==
    { <<"{", "a">>,
      <<"}">>,
      <<"}", "x", "{", "a", "}", "x", "{", "a">>,
      <<"{", "a", "{", "a", "}">>,
      <<"{", "a", "{", "a">>,
      <<"{", "{", "a", "}", "}">> }

DelimDocuments ==
    {Concat(q) : q \in SeqsUpTo({RunWithText(t) : t \in DelimTexts}, MaxDelimRuns) \ {<<>>}}

InitDelims == InitWith(DelimDocuments)

SpecDelims == InitDelims /\ [][NextParse]_vars

----------------------------------------------------------------------------
(* The locator on self-closing, empty, nested and unclosed runs.           *)

MaxLocateRuns == 3

\* <w:r> <w:r/> </w:r>
RunAroundSingleton == RunOpenStr \o RunSingletonStr \o RunCloseStr

LocateElements ==
    { RunSingletonStr,
      RunOpenStr \o RunCloseStr,
      RunAroundSingleton,
      RunOpenStr,
      RunWithText(<<"{", "a", "}">>),
      RunWithText(<<"{", "a">>),
      RunWithText(<<"}">>),
      NestedRun(<<"{", "a">>, <<"}">>) }

LocateDocuments ==
    {Concat(q) : q \in SeqsUpTo(LocateElements, MaxLocateRuns) \ {<<>>}}

InitLocate == InitWith(LocateDocuments)

SpecLocate == InitLocate /\ [][NextParse]_vars

----------------------------------------------------------------------------
(* The locator on buffers the tokenizer gives up on: an end tag that       *)
(* closes nothing, an element that is never closed.                        *)

MaxSyntaxParts == 3

StrayEnd == <<"<", "/", "w", ":", "p", ">">>

Unclosed == <<"<", "w", ":", "p", ">">>

SyntaxParts ==
    { RunWithText(<<"{", "a", "}">>), RunWithText(<<"x">>), StrayEnd, Unclosed }

SyntaxDocuments == {Concat(q) : q \in SeqsUpTo(SyntaxParts, MaxSyntaxParts) \ {<<>>}}

InitSyntax == InitWith(SyntaxDocuments)

SpecSyntax == InitSyntax /\ [][NextParse]_vars

----------------------------------------------------------------------------
(* findRuns token by token, on run elements nested up to three deep.       *)

MaxStackParts == 2

Wrapped(inner) == RunOpenStr \o inner \o RunCloseStr

StackParts ==
    { RunSingletonStr,
      Wrapped(<<>>),
      Wrapped(Wrapped(<<>>) \o Wrapped(<<>>)),
      Wrapped(Wrapped(Wrapped(<<>>))),
      Wrapped(RunSingletonStr \o Wrapped(RunSingletonStr)),
      NestedRun(<<"x">>, <<"y">>),
      RunOpenStr }

StackDocuments == {Concat(q) : q \in SeqsUpTo(StackParts, MaxStackParts) \ {<<>>}}

\* the local variables of findRuns before its loop
NewFindRuns(id) ==
    [tmpRun |-> NewEmptyRun(id + 1), runId |-> id + 1, singleton |-> FALSE,
     nestCount |-> 0, runStack |-> <<>>, runs |-> <<>>]

\* Execute enters findRuns: the decoder is made
BeginFindRuns ==
    /\ phase = "new"
    /\ phase' = "locating"
    /\ scan' = [st |-> NewFindRuns(runId), todo |-> Tokens(document).toks,
                run |-> 0, before |-> NewFindRuns(runId)]
    /\ UNCHANGED <<document, runs, runId, placeholders, distinctRuns, ReplaceCount,
                   BytesChanged, parsed, spent, calls, last, files, mu, goroutines>>

\* one iteration of the loop of findRuns
TokenStep ==
    /\ phase = "locating"
    /\ scan.todo # <<>>
    /\ scan' = [st |-> findRunsStep(document, scan.st, Head(scan.todo)),
                todo |-> Tail(scan.todo),
                run |-> 0,
                before |-> scan.st]
    /\ UNCHANGED <<phase, document, runs, runId, placeholders, distinctRuns,
                   ReplaceCount, BytesChanged, parsed, spent, calls, last, files,
                   mu, goroutines>>

\* the loop is left: the depth test, then findTextRuns and the validation
EndFindRuns ==
    /\ phase = "locating"
    /\ scan.todo = <<>>
    /\ LET texts == findTextRuns(document, scan.st.runs)
           all == [i \in 1..Len(texts.runs) |-> i]
           err == scan.st.nestCount # 0 \/ texts.err
                    \/ ~ValidatePositions(document, texts.runs, all)
       IN  /\ runs' = texts.runs
           /\ runId' = scan.st.runId
           /\ phase' = IF err THEN "failed" ELSE "located"
    /\ UNCHANGED <<document, placeholders, distinctRuns, ReplaceCount, BytesChanged,
                   parsed, spent, calls, last, files, mu, goroutines, scan>>

InitStack == InitWith(StackDocuments)

NextStack == BeginFindRuns \/ TokenStep \/ EndFindRuns

SpecStack == InitStack /\ [][NextStack]_vars

----------------------------------------------------------------------------
(* What the claims speak about.                                            *)

\* the runs with text, ordered by the place of their text in the buffer
RECURSIVE SortByText(_, _)
SortByText(rs, todo) ==
    IF todo = {} THEN <<>>
    ELSE LET first == CHOOSE i \in todo :
                        \A j \in todo : rs[i].Text.OpenTag.Start <= rs[j].Text.OpenTag.Start
         IN  <<first>> \o SortByText(rs, todo \ {first})

TextRunsInDocumentOrder(rs) == SortByText(rs, {i \in 1..Len(rs) : rs[i].HasText})

\* the text of the document: the run texts in document order, one after the other
FullText(rs, docBytes) ==
    LET order == TextRunsInDocumentOrder(rs)
    IN  Concat([k \in 1..Len(order) |-> GetText(rs[order[k]], docBytes)])

Delimiters(s) == SelectSeq(s, LAMBDA c : c \in {OpenDelimiter, CloseDelimiter})

\* no placeholder is nested or left open: the delimiters read { } { } ... { }
NotNested(s) ==
    LET d == Delimiters(s)
    IN  /\ Len(d) % 2 = 0
        /\ \A i \in 1..Len(d) :
              d[i] = IF i % 2 = 1 THEN OpenDelimiter ELSE CloseDelimiter

\* the delimited key occurrences of a text that is NotNested, in order
Occurrences(s) ==
    LET o == FindAllStringIndex(s, OpenDelimiter)
        c == FindAllStringIndex(s, CloseDelimiter)
    IN  [k \in 1..Len(o) |-> Slice(s, o[k], c[k] + 1)]

PlaceholderTexts(rs, phs, docBytes) ==
    [p \in 1..Len(phs) |-> PlaceholderText(rs, phs[p], docBytes)]

Assembled == phase \in {"ready", "failed", "crashed"} /\ calls = 0

\* C1: for a document whose placeholders are not nested, ParsePlaceholders
\* returns exactly one placeholder per delimited key occurrence of the run
\* texts taken in document order, each assembling to that occurrence
C1_FindsEveryPlaceholder ==
    (Assembled /\ NotNested(FullText(runs, document))) =>
        /\ phase = "ready"
        /\ PlaceholderTexts(runs, placeholders, document)
             = Occurrences(FullText(runs, document))

----------------------------------------------------------------------------
(* Reference notions for the replacement claims, all computed from the     *)
(* buffer itself and from the Replacer as the last call found it.          *)

Called == last.op = "Replace"

Before == last.before

\* the bytes of the tags of a buffer, without the text between them
RECURSIVE MarkupFrom(_, _, _)
MarkupFrom(doc, i, inTag) ==
    IF i > Len(doc) THEN <<>>
    ELSE IF inTag \/ doc[i] = "<"
         THEN <<doc[i]>> \o MarkupFrom(doc, i + 1, doc[i] # ">")
         ELSE MarkupFrom(doc, i + 1, FALSE)

Markup(doc) == MarkupFrom(doc, 1, FALSE)

\* the text the run with arena index run really has in the buffer: the run is
\* located again from the bytes, tracked spans are not used
LocatedText(doc, run) ==
    LET found == Execute(doc, 0)
    IN  IF found.err \/ run > Len(found.runs) THEN <<"?">>
        ELSE GetText(found.runs[run], doc)

\* text with its bytes from s up to e replaced by the bytes by
Splice(text, s, e, by) == Slice(text, 0, s) \o by \o Slice(text, e, Len(text))

RunsOf(ph) == [f \in 1..Len(ph) |-> ph[f].Run]

IsSplit(ph) ==
    /\ Len(ph) >= 2
    /\ \A f, g \in 1..Len(ph) : f # g => ph[f].Run # ph[g].Run

\* the last call matched exactly one placeholder, and that one is split over
\* fragments in different runs
OneSplitHit ==
    /\ Called
    /\ Len(last.hits) = 1
    /\ IsSplit(Before.placeholders[last.hits[1]])

\* C2: Replace on a placeholder split over n >= 2 fragments in different runs
\* writes the value where the first fragment was and removes the text of every
\* other fragment, and every run and text tag stays in place
C2_SplitPlaceholderReplaced ==
    OneSplitHit =>
        LET ph == Before.placeholders[last.hits[1]]
        IN  /\ Markup(document) = Markup(Before.document)
            /\ LocatedText(document, ph[1].Run)
                 = Splice(LocatedText(Before.document, ph[1].Run),
                          ph[1].Position.Start, ph[1].Position.End,
                          EscapeString(last.value))
            /\ \A f \in 2..Len(ph) :
                 LocatedText(document, ph[f].Run)
                   = Splice(LocatedText(Before.document, ph[f].Run),
                            ph[f].Position.Start, ph[f].Position.End, <<>>)

AllRuns(rs) == [i \in 1..Len(rs) |-> i]

\* C3: after any sequence of Replace calls the validator passes over the
\* full set of runs the parser located
C3_ValidatorPassesOnAllRuns ==
    phase = "ready" => ValidatePositions(document, runs, AllRuns(runs))

\* C4: a placeholder no Replace call has matched yet still assembles, from
\* the current buffer and spans, to the text it had right after parsing
C4_UnmatchedPlaceholdersInSync ==
    phase = "ready" =>
        \A p \in 1..Len(placeholders) :
            p \notin spent =>
                /\ PlaceholderTextOK(runs, placeholders[p], document)
                /\ PlaceholderText(runs, placeholders[p], document) = parsed[p]

\* the edits asked of a call: per matched placeholder the first fragment is
\* replaced by the bytes by, every other fragment is removed
EditsOf(R, hits, by) ==
    UNION { { [s |-> FragmentStartPos(R.runs, R.placeholders[hits[k]][f]),
               e |-> FragmentEndPos(R.runs, R.placeholders[hits[k]][f]),
               by |-> IF f = 1 THEN by ELSE <<>>]
              : f \in 1..Len(R.placeholders[hits[k]]) }
            : k \in 1..Len(hits) }

\* the buffer with the edits applied, the rearmost first
RECURSIVE ApplyEdits(_, _)
ApplyEdits(doc, edits) ==
    IF edits = {} THEN doc
    ELSE LET x == CHOOSE x \in edits : \A y \in edits : y.s <= x.s
         IN  ApplyEdits(Splice(doc, x.s, x.e, x.by), edits \ {x})

\* C5: Replace changes only the bytes inside the fragments of the matching
\* placeholders; all other bytes stay, in the same order
C5_OnlyFragmentBytesChange ==
    Called =>
        document = ApplyEdits(Before.document,
                              EditsOf(Before, last.hits, EscapeString(last.value)))

\* C6 as stated: after Replace(K, V) the buffer length is the old length
\* plus, per replaced occurrence, len(V) - len(delimited K)
C6_LengthByRawValue ==
    Called =>
        Len(document) = Len(Before.document)
            + Len(last.hits) * (Len(last.value) - Len(NormalizeKey(last.key)))

\* C6: after Replace(K, V) the buffer length is the old length plus, per
\* replaced occurrence, len(escaped V) - len(delimited K), also when an
\* occurrence is split into several fragments
C6_LengthByEscapedValue ==
    Called =>
        Len(document) = Len(Before.document)
            + Len(last.hits) * (Len(EscapeString(last.value)) - Len(NormalizeKey(last.key)))

\* C6 witness: a call has replaced a split occurrence by a value that
\* escaping lengthens
C6_Witness ==
    /\ OneSplitHit
    /\ last.err = "nil"
    /\ Len(EscapeString(last.value)) > Len(last.value)

ExampleA == RunWithText(<<"{", "f", "o", "o", "}">>)

FirstCallOnExampleA ==
    /\ Called
    /\ calls = 1
    /\ Before.document = ExampleA
    /\ last.key = <<"f", "o", "o">>
    /\ last.value = <<"X">>

\* C7 as stated: on one run with text '{foo}', Replace('foo', 'X') yields the
\* run with text 'X', ReplaceCount = 1 and BytesChanged = -2
C7_ExampleAMinusTwo ==
    FirstCallOnExampleA =>
        /\ document = RunWithText(<<"X">>)
        /\ ReplaceCount = 1
        /\ BytesChanged = 0 - 2

\* C7: on one run with text '{foo}', Replace('foo', 'X') yields the run with
\* text 'X', ReplaceCount = 1 and BytesChanged = -4
C7_ExampleAMinusFour ==
    FirstCallOnExampleA =>
        /\ last.err = "nil"
        /\ document = RunWithText(<<"X">>)
        /\ ReplaceCount = 1
        /\ BytesChanged = 0 - 4

\* C7 witness: the first call on the one-run buffer was Replace('foo', 'X')
C7_Witness ==
    FirstCallOnExampleA /\ last.hits = <<1>>

\* text with every occurrence of w, from the left, replaced by the bytes by
RECURSIVE SubstituteAll(_, _, _)
SubstituteAll(text, w, by) ==
    IF text = <<>> THEN <<>>
    ELSE IF Len(w) <= Len(text) /\ SubSeq(text, 1, Len(w)) = w
         THEN by \o SubstituteAll(SubSeq(text, Len(w) + 1, Len(text)), w, by)
         ELSE <<Head(text)>> \o SubstituteAll(Tail(text), w, by)

\* the placeholders that had, before the last call, the delimited key as
\* their text and lay, with their one fragment, in the run
KeyedInRun(run) ==
    { p \in 1..Len(Before.placeholders) :
        /\ Len(Before.placeholders[p]) = 1
        /\ Before.placeholders[p][1].Run = run
        /\ PlaceholderTextOK(Before.runs, Before.placeholders[p], Before.document)
        /\ PlaceholderText(Before.runs, Before.placeholders[p], Before.document)
             = AddPlaceholderDelimiter(last.key) }

\* the runs that held k >= 2 placeholders with the key of the last call,
\* every placeholder of the run lying in it as a whole
RunsHitTwice ==
    { run \in 1..Len(runs) :
        /\ Called
        /\ Cardinality(KeyedInRun(run)) >= 2
        /\ \A p \in 1..Len(Before.placeholders) :
             \A f \in 1..Len(Before.placeholders[p]) :
                Before.placeholders[p][f].Run = run => Len(Before.placeholders[p]) = 1 }

KeyAbsent ==
    /\ Called
    /\ \A p \in 1..Len(Before.placeholders) :
          ~ /\ PlaceholderTextOK(Before.runs, Before.placeholders[p], Before.document)
            /\ PlaceholderText(Before.runs, Before.placeholders[p], Before.document)
                 = AddPlaceholderDelimiter(last.key)

\* C9: when no parsed placeholder has the delimited key as its text, Replace
\* returns ErrPlaceholderNotFound and leaves the buffer, every span and both
\* counters unchanged
C9_NotFoundLeavesAllUnchanged ==
    KeyAbsent =>
        /\ last.err = "ErrPlaceholderNotFound"
        /\ Replacer = Before

\* the key as the specification has Replace match it: unchanged when its first
\* character is the open and its last the close delimiter, wrapped otherwise
WrappedUnlessDelimited(K) ==
    IF IsDelimitedPlaceholder(K) THEN K
    ELSE <<OpenDelimiter>> \o K \o <<CloseDelimiter>>

\* C10: Replace matches the placeholders against K itself when K is wrapped
\* in the delimiters and against the wrapped K in every other case: every
\* placeholder with that text is matched by the call
C10_MatchesKeyWrappedUnlessDelimited ==
    Called =>
        \A p \in 1..Len(Before.placeholders) :
            ( /\ PlaceholderTextOK(Before.runs, Before.placeholders[p], Before.document)
              /\ PlaceholderText(Before.runs, Before.placeholders[p], Before.document)
                   = WrappedUnlessDelimited(last.key) )
            => \E k \in 1..Len(last.hits) : last.hits[k] = p

\* C11: every placeholder ParsePlaceholders returns has a fragment, and its
\* text holds exactly one open delimiter, at the first position, and exactly
\* one close delimiter, at the last
C11_OneDelimiterPairPerPlaceholder ==
    (Assembled /\ phase = "ready") =>
        \A p \in 1..Len(placeholders) :
            /\ Len(placeholders[p]) >= 1
            /\ Delimiters(parsed[p]) = <<OpenDelimiter, CloseDelimiter>>
            /\ IsDelimitedPlaceholder(parsed[p])

\* C12: the placeholders ParsePlaceholders returns are in document order:
\* of two of them, the one whose first fragment starts earlier comes first
C12_PlaceholdersInDocumentOrder ==
    (Assembled /\ phase = "ready") =>
        \A p, q \in 1..Len(placeholders) :
            p < q => PlaceholderStartPos(runs, placeholders[p])
                       <= PlaceholderStartPos(runs, placeholders[q])

\* C13: ParsePlaceholders never crashes, whatever the delimiters of the run
\* texts: it returns a placeholder list or an error
C13_ParsePlaceholdersNeverCrashes == phase # "crashed"

\* a second open delimiter comes before the first close delimiter of the text
SecondOpenBeforeFirstClose(text) ==
    LET o == FindAllStringIndex(text, OpenDelimiter)
        c == FindAllStringIndex(text, CloseDelimiter)
    IN  /\ Len(o) >= 2
        /\ Len(c) >= 1
        /\ o[2] < c[1]

\* C14: a run whose text has a second open delimiter before its first close
\* delimiter is skipped: no returned placeholder has a fragment in it, and
\* the parsing goes on without an error
C14_NestedRunSkipped ==
    (Assembled /\ \E k \in 1..Len(runs) :
                     SecondOpenBeforeFirstClose(GetText(runs[k], document))) =>
        /\ phase = "ready"
        /\ \A p \in 1..Len(placeholders) : \A f \in 1..Len(placeholders[p]) :
              ~SecondOpenBeforeFirstClose(GetText(runs[placeholders[p][f].Run], document))

\* the offsets at which the bytes w start in the buffer
OffsetsOf(doc, w) ==
    { i \in 0..(Len(doc) - Len(w)) : Slice(doc, i, i + Len(w)) = w }

\* the offsets of the run elements of the buffer, self-closing ones included
RunElementOffsets(doc) == OffsetsOf(doc, RunOpenStr) \cup OffsetsOf(doc, RunSingletonStr)

\* every run element of the buffer is closed: as many </w:r> as <w:r>
RunsClosed(doc) ==
    Cardinality(OffsetsOf(doc, RunOpenStr)) = Cardinality(OffsetsOf(doc, RunCloseStr))

Located == phase # "new" /\ calls = 0

\* C15: on a well-formed buffer the locator finds one run per run element,
\* self-closing and nested ones included, each at the offset of its element,
\* and a self-closing run has its CloseTag equal to its OpenTag
C15_OneRunPerRunElement ==
    (Located /\ RunsClosed(document)) =>
        /\ Len(runs) = Cardinality(RunElementOffsets(document))
        /\ {runs[k].OpenTag.Start : k \in 1..Len(runs)} = RunElementOffsets(document)
        /\ \A k \in 1..Len(runs) :
              runs[k].OpenTag.Start \in OffsetsOf(document, RunSingletonStr)
                 => runs[k].CloseTag = runs[k].OpenTag

\* C15 witness: the locator has found a self-closing run inside another run,
\* after an earlier run
C15_Witness ==
    /\ Located
    /\ RunsClosed(document)
    /\ \E j, k \in 1..Len(runs) :
          /\ runs[k].CloseTag = runs[k].OpenTag
          /\ runs[j].OpenTag.Start > 0
          /\ runs[j].OpenTag.Start < runs[k].OpenTag.Start
          /\ runs[k].CloseTag.End <= runs[j].CloseTag.Start

\* C16: when the run nesting depth is not back at zero at the end of the
\* input the locator fails, and the replacement engine is handed no run and
\* no placeholder
C16_UnclosedRunFailsTheParse ==
    (Located /\ ~RunsClosed(document)) =>
        /\ phase = "failed"
        /\ placeholders = <<>>
        /\ distinctRuns = <<>>

\* C16 witness: the locator has failed on a buffer with a run left open
\* after a complete run
C16_Witness ==
    /\ phase = "failed"
    /\ ~RunsClosed(document)
    /\ Len(runs) >= 1

\* C17: GetText of a run with a text is the bytes between the end of its
\* text open tag and the start of its text close tag, the tags lying right
\* around them; of a run without a text it is empty; and WithText is the
\* runs with a text in their original order
C17_GetTextAndWithText ==
    (Located /\ phase # "failed") =>
        /\ \A k \in 1..Len(runs) :
              IF runs[k].HasText
              THEN /\ GetText(runs[k], document)
                        = Slice(document, runs[k].Text.OpenTag.End,
                                runs[k].Text.CloseTag.Start)
                   /\ Slice(document, runs[k].Text.OpenTag.Start, runs[k].Text.CloseTag.End)
                        = TextOpenStr \o GetText(runs[k], document) \o TextCloseStr
              ELSE GetText(runs[k], document) = <<>>
        /\ {WithText(runs)[i] : i \in 1..Len(WithText(runs))}
              = {k \in 1..Len(runs) : runs[k].HasText}
        /\ \A i, j \in 1..Len(WithText(runs)) :
              i < j => WithText(runs)[i] < WithText(runs)[j]

\* C17 witness: the located runs hold one without a text between two with a
\* text
C17_Witness ==
    /\ Located
    /\ phase # "failed"
    /\ \E i, j, k \in 1..Len(runs) :
          i < j /\ j < k /\ runs[i].HasText /\ ~runs[j].HasText /\ runs[k].HasText

\* the spans of a run, without its ID
RunSpans(run) == <<run.OpenTag, run.CloseTag, run.HasText, run.Text>>

\* two placeholder lists with the same length, fragment counts, fragment
\* positions and run spans
SameStructure(rs1, phs1, rs2, phs2) ==
    /\ Len(phs1) = Len(phs2)
    /\ \A p \in 1..Len(phs1) :
          /\ Len(phs1[p]) = Len(phs2[p])
          /\ \A f \in 1..Len(phs1[p]) :
                /\ phs1[p][f].Position = phs2[p][f].Position
                /\ RunSpans(rs1[phs1[p][f].Run]) = RunSpans(rs2[phs2[p][f].Run])

\* C18: the locator and the assembler run once more on the untouched buffer,
\* with a new parser or with the parser that has run before, give a
\* placeholder list with the same length, fragment counts, fragment
\* positions and run spans
C18_ParsingIsIdempotent ==
    (Assembled /\ phase = "ready") =>
        LET fresh == Execute(document, runId)
            again == ExecuteAgain(document, runId, runs)
            phsFresh == ParsePlaceholders(fresh.runs, document)
            phsAgain == ParsePlaceholders(again.runs, document)
        IN  /\ ~fresh.err /\ ~phsFresh.err /\ ~phsFresh.panic
            /\ SameStructure(runs, placeholders, fresh.runs, phsFresh.placeholders)
            /\ ~again.err /\ ~phsAgain.err /\ ~phsAgain.panic
            /\ SameStructure(runs, placeholders, again.runs, phsAgain.placeholders)

\* C18 witness: the parsing has given a placeholder with fragments in two
\* runs, one inside the other
C18_Witness ==
    /\ Assembled
    /\ phase = "ready"
    /\ \E p \in 1..Len(placeholders) :
          /\ Len(placeholders[p]) = 2
          /\ runs[placeholders[p][2].Run].OpenTag.Start
               < runs[placeholders[p][1].Run].OpenTag.Start

BatchCalled == last.op = "ReplaceAll"

ContinuesAfter(err) == err \in {"nil", "ErrPlaceholderNotFound"}

\* C19: in a batch, the keys are given to Replace in the order of the map; a
\* key that Replace reports as not found does not end the batch, so that
\* every key is processed unless a Replace call fails otherwise; and a
\* Replace call that fails otherwise (the validator) is the last call of the
\* batch, which returns that error; a batch that returns no error has set the
\* file to the bytes of the Replacer
C19_NotFoundContinuesValidatorAborts ==
    BatchCalled =>
        LET tr == last.trace
        IN  /\ Len(tr) <= Len(last.order)
            /\ \A i \in 1..Len(tr) : tr[i].key = last.order[i].key
            /\ \A i \in 1..(Len(tr) - 1) : ContinuesAfter(tr[i].err)
            /\ (\A i \in 1..Len(tr) : ContinuesAfter(tr[i].err))
                  => Len(tr) = Len(last.order)
            /\ \A i \in 1..Len(tr) :
                  ~ContinuesAfter(tr[i].err)
                     => /\ i = Len(tr)
                        /\ last.err = tr[i].err
                        /\ last.err # "nil"
            /\ last.err = "nil" => files.array = document

\* C19 witness: a batch whose first key was not found, whose second key was
\* replaced, and which returned no error
C19_Witness ==
    /\ BatchCalled
    /\ Len(last.trace) = 2
    /\ last.trace[1].err = "ErrPlaceholderNotFound"
    /\ last.trace[2].err = "nil"
    /\ Len(last.trace[2].hits) > 0
    /\ last.err = "nil"

\* a batch of two keys that a validator failure has ended at its first key
C19_AbortReached ==
    /\ BatchCalled
    /\ Len(last.order) = 2
    /\ Len(last.trace) = 1
    /\ last.trace[1].err = "invalid"

\* C20: when ReplaceAll (or Replace) of the Document returns an error, GetFile
\* returns the same bytes as before the call
C20_ErrorLeavesFilesUnchanged ==
    (BatchCalled /\ last.err # "nil") => files.array = last.filesBefore.array

\* the goroutines inside the match-and-edit section of Replace
Inside == {g \in Goroutines : goroutines[g].at \in {"editing", "validate"}}

\* the Replacer after the calls of a sequence, one after the other
RECURSIVE Serially(_, _, _)
Serially(R, dr, order) ==
    IF order = <<>> THEN R
    ELSE Serially(Replace(R, dr, Head(order).key, Head(order).value).R, dr, Tail(order))

\* the fields of the Replacer the statement compares
Outcome(R) == <<R.document, R.runs, R.placeholders, R.ReplaceCount, R.BytesChanged>>

\* C21: at no time are two goroutines inside the match-and-edit section of
\* Replace, the one inside holds the mutex, and whenever no call is inside,
\* the buffer, the spans, ReplaceCount and BytesChanged are those of the
\* calls made so far executed one after the other in the order they took
\* the mutex
C21_ReplaceCallsSerialized ==
    /\ Cardinality(Inside) <= 1
    /\ \A g \in Inside : mu = g
    /\ (last.op = "Goroutines" /\ Inside = {} /\ phase = "ready")
          => Outcome(Replacer) = Outcome(Serially(last.before, distinctRuns, last.order))

\* C21 witness: a goroutine waits for the mutex while another one stands
\* between the replacement of the first fragment of a placeholder and the
\* cut of the second, after an earlier call has replaced something
C21_Witness ==
    \E g, h \in Goroutines :
        /\ goroutines[g].at = "waiting"
        /\ goroutines[h].at = "editing"
        /\ goroutines[h].f = 2

\* C22: Bytes never runs while a Replace call is inside its match-and-edit
\* section, and so never returns a buffer in which a placeholder is
\* replaced in part
C22_ReadsExcludeMutation ==
    \A g \in Goroutines :
        (goroutines[g].op = "Bytes" /\ goroutines[g].at = "returned")
            => goroutines[g].holder = 0

\* C23: a Replace call never matches a placeholder that an earlier call has
\* matched, so that a parsed placeholder is replaced at most once
C23_SpentPlaceholderNeverMatchedAgain ==
    [][last'.op = "Replace"
          => \A k \in 1..Len(last'.hits) : last'.hits[k] \notin spent]_vars

\* the count of replacements exceeds the count of parsed placeholders
ReplacedMoreThanParsed == phase = "ready" /\ ReplaceCount > Len(parsed)

\* the loop of ParsePlaceholders has just taken a run
Scanned == phase = "parsing" /\ scan.run # 0

ScannedText == GetText(runs[scan.run], document)

ScannedOpens == FindAllStringIndex(ScannedText, OpenDelimiter)

ScannedCloses == FindAllStringIndex(ScannedText, CloseDelimiter)

\* the run by run parse ends as ParsePlaceholders does
ScanAgreesWithParsePlaceholders ==
    (phase \in {"ready", "failed", "crashed"} /\ scan.run # 0)
        => LET res == ParsePlaceholders(runs, document)
           IN  /\ res.placeholders = placeholders
               /\ res.err = (phase = "failed")
               /\ res.panic = (phase = "crashed")

\* C24: when the loop takes a run with one close delimiter more than open
\* delimiters while no placeholder is pending, ParsePlaceholders fails: the
\* loop ends with an error
C24_UnpairedCloseWithoutPendingFails ==
    (Scanned /\ ~scan.before.hasOpenPlaceholder
        /\ Len(ScannedCloses) = Len(ScannedOpens) + 1)
      => scan.st.err

\* the placeholders the loop has added in its last iteration
Emitted ==
    {scan.st.placeholders[k] :
        k \in (Len(scan.before.placeholders) + 1)..Len(scan.st.placeholders)}

\* the one-fragment placeholders of the pairs that remain when the first close
\* delimiter of the run is left out
InnerPairs(last_open) ==
    { <<NewPlaceholderFragment(0, Position(ScannedOpens[k], ScannedCloses[k + 1] + 1),
                               scan.run)>> : k \in 1..last_open }

\* the pending placeholder, closed by the run text up to the first close delimiter
PendingClosed ==
    Append(scan.before.unclosedPlaceholder,
           NewPlaceholderFragment(0, Position(0, ScannedCloses[1] + 1), scan.run))

\* C26: when the loop takes, while a placeholder is pending, a run with as
\* many close as open delimiters (not zero) in which a close delimiter
\* precedes the open delimiter it is paired with by position, it adds the
\* inner pairs and the pending placeholder closed with the text up to the
\* first close delimiter, and the pending placeholder is then the text from
\* the last open delimiter to the end of the run
C26_SplitBoundaryClosesAndReopens ==
    (Scanned /\ scan.before.hasOpenPlaceholder
        /\ Len(ScannedOpens) = Len(ScannedCloses) /\ Len(ScannedOpens) # 0
        /\ \E k \in 1..Len(ScannedOpens) : ScannedCloses[k] < ScannedOpens[k])
      => /\ ~scan.st.err
         /\ Emitted = InnerPairs(Len(ScannedOpens) - 1) \cup {PendingClosed}
         /\ scan.st.hasOpenPlaceholder
         /\ scan.st.unclosedPlaceholder
              = <<NewPlaceholderFragment(0,
                     Position(ScannedOpens[Len(ScannedOpens)], Len(ScannedText)), scan.run)>>

\* C27: when the loop takes, while a placeholder is pending, a run with one
\* close delimiter more than open delimiters, whose first delimiter is the
\* unpaired close, it adds the pending placeholder closed with the text from
\* the run start through that close and the pairs of the run as one-fragment
\* placeholders, and no placeholder is pending afterwards
C27_UnpairedCloseCompletesPending ==
    (Scanned /\ scan.before.hasOpenPlaceholder
        /\ Len(ScannedCloses) = Len(ScannedOpens) + 1
        /\ \A k \in 1..Len(ScannedOpens) : ScannedCloses[k] < ScannedOpens[k])
      => /\ ~scan.st.err
         /\ Emitted = InnerPairs(Len(ScannedOpens)) \cup {PendingClosed}
         /\ ~scan.st.hasOpenPlaceholder
         /\ scan.st.unclosedPlaceholder = <<>>

\* the loop has taken a run in which the anomaly is detected while no
\* placeholder was pending
AnomalyWithoutPending ==
    /\ scan.run # 0
    /\ ~scan.before.hasOpenPlaceholder
    /\ Len(ScannedOpens) = Len(ScannedCloses)
    /\ Len(ScannedOpens) # 0
    /\ isSpecialCase(ScannedOpens, ScannedCloses)

\* C28: when the anomaly is detected in a run while no placeholder is
\* pending, the loop ends there with an error and ParsePlaceholders returns
\* no placeholder, whatever earlier runs or the same run had given; no run
\* is taken after an error
C28_AnomalyWithoutPendingStopsTheParse ==
    /\ ~scan.before.err
    /\ AnomalyWithoutPending
          => /\ scan.st.err
             /\ phase \in {"parsing", "failed"}
             /\ phase = "failed" => placeholders = <<>> /\ parsed = <<>>

\* C28 witness: ParsePlaceholders has returned the error for a run with an
\* inner pair, taken after a run that had given a placeholder and with
\* another run still to take
C28_Witness ==
    /\ phase = "failed"
    /\ AnomalyWithoutPending
    /\ Len(ScannedOpens) >= 2
    /\ Len(scan.before.placeholders) >= 1
    /\ scan.todo # <<>>

\* the runs that own a fragment
TrackedRuns(phs) == UNION {{phs[p][f].Run : f \in 1..Len(phs[p])} : p \in 1..Len(phs)}

\* the four tag spans of a run; the text spans of a run without text are zero
SpansOf(run) == <<run.OpenTag, run.CloseTag, run.Text.OpenTag, run.Text.CloseTag>>

\* no call of Replace is under way
NoCallUnderWay == mu = 0

\* C25: right after the parsing and after every Replace call, every span of
\* a run that owns a fragment has start <= end, and so has the Position of
\* every fragment, replaced and cut ones included
C25_SpansValidInEveryState ==
    (phase = "ready" /\ NoCallUnderWay) =>
        /\ \A r \in TrackedRuns(placeholders) :
              \A k \in 1..4 : PositionValid(SpansOf(runs[r])[k])
        /\ \A p \in 1..Len(placeholders) : \A f \in 1..Len(placeholders[p]) :
              PositionValid(placeholders[p][f].Position)

\* C25 witness: two calls have returned, and a fragment that was cut has
\* start = end
C25_Witness ==
    /\ phase = "ready"
    /\ NoCallUnderWay
    /\ calls = 2
    /\ ReplaceCount = 2
    /\ \E p \in 1..Len(placeholders) :
          /\ Len(placeholders[p]) = 2
          /\ placeholders[p][2].Position.Start = placeholders[p][2].Position.End

\* the literal text of fragment f of placeholder i as the parsing found it
\* (the Replacer as it was when the first call took the lock)
OriginalLiteral(i, f) ==
    LET R0 == last.before
        frag == R0.placeholders[i][f]
    IN  Slice(R0.document, FragmentStartPos(R0.runs, frag), FragmentEndPos(R0.runs, frag))

\* the bytes of the current buffer at the absolute span of fragment f of
\* placeholder i are its original literal text
HitsOriginal(i, f) ==
    LET frag == placeholders[i][f]
        s == FragmentStartPos(runs, frag)
        e == FragmentEndPos(runs, frag)
    IN  /\ SliceOK(document, s, e)
        /\ Slice(document, s, e) = OriginalLiteral(i, f)

\* the next step of the caller's Replace edits a fragment: the first fragment
\* of a placeholder that matches the key, or a later fragment of the
\* placeholder whose first fragment it has replaced
AboutToEdit ==
    LET me == goroutines[Caller]
    IN  /\ phase = "ready"
        /\ me.at = "editing"
        /\ me.i <= Len(placeholders)
        /\ \/ me.f > 1
           \/ /\ PlaceholderTextOK(runs, placeholders[me.i], document)
              /\ PlaceholderText(runs, placeholders[me.i], document) = me.key

\* C29: at the moment a fragment of a matching placeholder is edited, the
\* bytes of the current buffer at the fragment's absolute span are the
\* fragment's original literal text
C29_EditsHitTheOriginalBytes ==
    AboutToEdit => HitsOriginal(goroutines[Caller].i, goroutines[Caller].f)

\* the run of the fragment the caller's Replace stands at
EditedRun == placeholders[goroutines[Caller].i][goroutines[Caller].f].Run

\* the runs owning a fragment that start at or after the end of the text
\* open tag of run e
FollowingRuns(e) ==
    {r \in TrackedRuns(placeholders) : runs[r].OpenTag.Start >= runs[e].Text.OpenTag.End}

\* C30: a step of Replace that edits a fragment and changes the length of the
\* buffer by d moves the four tag spans of every run that owns a fragment
\* and starts at or after the edited run's text-open end by d, once
C30_FollowingRunsShiftedOnce ==
    [][(AboutToEdit /\ document' # document) =>
          LET d == Len(document') - Len(document)
          IN  \A r \in FollowingRuns(EditedRun) :
                 \A k \in 1..4 :
                    SpansOf(runs'[r])[k] = PositionShift(SpansOf(runs[r])[k], d)]_vars

\* C30 witness: the caller's Replace has edited a fragment of the first run,
\* and a run after it owns two fragments and has moved with the buffer
C30_Witness ==
    /\ phase = "ready"
    /\ goroutines[Caller].at = "editing"
    /\ goroutines[Caller].found
    /\ calls = 0
    /\ spent = {1}
    /\ Len(placeholders) = 3
    /\ placeholders[1][1].Run # placeholders[2][1].Run
    /\ placeholders[2][1].Run = placeholders[3][1].Run
    /\ Len(document) # Len(last.before.document)
    /\ runs[placeholders[2][1].Run].OpenTag.Start
          = last.before.runs[placeholders[2][1].Run].OpenTag.Start
              + Len(document) - Len(last.before.document)

\* the caller's Replace takes the step that edits the fragment it stands at
EditHappens == AboutToEdit /\ goroutines'[Caller] # goroutines[Caller]

\* the fragments other than <<i, f>> that lie in run e
OthersInRun(e, i, f) ==
    {pf \in UNION {{<<p, q>> : q \in 1..Len(placeholders[p])} : p \in 1..Len(placeholders)} :
        pf # <<i, f>> /\ placeholders[pf[1]][pf[2]].Run = e}

\* fragment G of the run of F lies after F: its text begins where the text
\* of F ends, or later
LiesAfter(G, F) == G.Position.Start >= F.Position.End

\* C31: a step that edits fragment F and changes the length of the buffer by
\* d moves the Position of the other fragments of F's run that lie after F
\* by d, leaves the Position of those that lie before F (spent ones
\* included), leaves the run's OpenTag and text open tag, and moves the
\* run's text close tag and CloseTag by d
C31_SameRunFragmentsAfterTheEditShift ==
    [][EditHappens =>
          LET me == goroutines[Caller]
              F == placeholders[me.i][me.f]
              e == F.Run
              d == Len(document') - Len(document)
          IN  /\ \A pf \in OthersInRun(e, me.i, me.f) :
                    LET G == placeholders[pf[1]][pf[2]]
                    IN  placeholders'[pf[1]][pf[2]].Position =
                            IF LiesAfter(G, F) THEN PositionShift(G.Position, d)
                            ELSE G.Position
              /\ runs'[e].OpenTag = runs[e].OpenTag
              /\ runs'[e].Text.OpenTag = runs[e].Text.OpenTag
              /\ runs'[e].Text.CloseTag = PositionShift(runs[e].Text.CloseTag, d)
              /\ runs'[e].CloseTag = PositionShift(runs[e].CloseTag, d)]_vars

\* C32: at every point of every Replace call the length of the buffer is
\* the length it had after the parsing plus BytesChanged, and ReplaceCount
\* is the number of placeholders replaced so far, one for each whatever the
\* number of its fragments
C32_CountersAgreeWithTheBuffer ==
    (phase = "ready" /\ last.op = "Goroutines") =>
        /\ Len(document) = Len(last.before.document) + BytesChanged
        /\ ReplaceCount = Cardinality(spent)

\* C32 witness: two calls have returned, one of them has replaced a
\* placeholder of two fragments, and the buffer has changed its length
C32_Witness ==
    /\ phase = "ready"
    /\ NoCallUnderWay
    /\ calls = 2
    /\ ReplaceCount = 2
    /\ BytesChanged # 0
    /\ \E p \in spent : Len(placeholders[p]) = 2
    /\ \E p \in spent : Len(placeholders[p]) = 1

\* the validation of the runs that own a fragment fails on the buffer and
\* the spans as they are
ValidationFails == ValidateOutcomes(document, runs, distinctRuns) = {"invalid"}

\* C33: Replace validates after the fragments of each matching placeholder:
\* once the validation fails it edits no further placeholder, and it
\* returns an error that is neither nil nor the not-found error, whether the
\* key was found or not
C33_ValidatesAfterEachMatchingPlaceholder ==
    /\ (AboutToEdit /\ goroutines[Caller].f = 1 /\ goroutines[Caller].found)
          => ~ValidationFails
    /\ (phase = "ready" /\ goroutines[Caller].at = "returned" /\ ValidationFails)
          => goroutines[Caller].err \notin {"nil", "ErrPlaceholderNotFound"}

\* s is a start tag of the element: "<w:", the name, then ">" at once or a
\* blank and attributes, and no other tag delimiter before the closing ">"
IsStartTag(s, name) ==
    /\ Len(s) >= 5
    /\ Slice(s, 0, 4) = <<"<", "w", ":">> \o name
    /\ s[Len(s)] = ">"
    /\ Len(s) > 5 => s[5] = " "
    /\ \A j \in 2..(Len(s) - 1) : s[j] \notin {"<", ">"}

\* every span of the run slices out its own tag and nothing else
TagsExact(doc, run) ==
    LET open == Slice(doc, run.OpenTag.Start, run.OpenTag.End)
    IN  \/ open = RunSingletonStr
        \/ /\ IsStartTag(open, RunElementName)
           /\ Slice(doc, run.CloseTag.Start, run.CloseTag.End) = RunCloseStr
           /\ run.HasText =>
                /\ IsStartTag(Slice(doc, run.Text.OpenTag.Start, run.Text.OpenTag.End),
                              TextElementName)
                /\ Slice(doc, run.Text.CloseTag.Start, run.Text.CloseTag.End) = TextCloseStr

\* ValidatePositions has returned, and every span lay within the buffer
Validated ==
    /\ phase = "validated"
    /\ \A r \in 1..Len(runs) : ~RunPositionsOverrun(document, runs[r])

\* C34: ValidatePositions returns nil exactly when every span of every run
\* slices out its own tag: a span that is displaced or that also covers
\* bytes outside its tag makes the call fail
C34_ValidatorAcceptsExactTagsOnly ==
    Validated =>
        (last.outcome = "ok" <=> \A r \in 1..Len(runs) : TagsExact(document, runs[r]))

\* the reader position after the last token the decoder handed out
ScannedTo(doc) ==
    LET toks == Tokens(doc).toks
    IN  IF toks = <<>> THEN 0 ELSE toks[Len(toks)].Pos

\* no tag of the buffer lies behind the last token
ConsumedAll(doc) == IndexFrom(doc, "<", ScannedTo(doc) + 1) = 0

\* C35: when the tokenizer reports an error that is not the end of the
\* input the locator returns an error and its runs are not used; a scan that
\* ends without an error has consumed the whole buffer
C35_TokenizerErrorFailsTheLocator ==
    /\ (phase # "new" /\ Tokens(document).err) =>
          (phase = "failed" /\ placeholders = <<>>)
    /\ phase \in {"located", "ready"} => ConsumedAll(document)

\* the caller has made two Replace calls, for two different keys, and both
\* have returned
TwoKeysReplaced ==
    /\ phase = "ready"
    /\ NoCallUnderWay
    /\ last.op = "Goroutines"
    /\ calls = 2
    /\ Len(last.order) = 2
    /\ NormalizeKey(last.order[1].key) # NormalizeKey(last.order[2].key)

\* C36: two Replace calls for different keys give the same buffer, the same
\* ReplaceCount and the same BytesChanged as the two calls in the opposite
\* order
C36_ReplaceCallsCommute ==
    TwoKeysReplaced =>
        LET opposite == Serially(last.before, distinctRuns,
                                 <<last.order[2], last.order[1]>>)
        IN  /\ document = opposite.document
            /\ ReplaceCount = opposite.ReplaceCount
            /\ BytesChanged = opposite.BytesChanged

\* a second call of Document.Replace, for a key that occurs in the file,
\* after a first call that has returned no error and has replaced something
SecondReplaceOfDocument ==
    /\ BatchCalled
    /\ calls = 2
    /\ last.earlier = "nil"
    /\ last.before.ReplaceCount > 0
    /\ Len(last.order) = 1
    /\ countPlaceholders(last.filesBefore.array, last.order) > 0

\* C37: after a Document.Replace that has succeeded, a Document.Replace for
\* another key that occurs in the file succeeds as well and replaces the key
C37_DocumentReplaceCanBeRepeated ==
    SecondReplaceOfDocument =>
        /\ last.err = "nil"
        /\ Len(last.trace[1].hits) > 0

\* the tags of a buffer in their order: from each "<" to the next ">"
RECURSIVE TagsFrom(_, _)
TagsFrom(doc, i) ==
    LET lt == IndexFrom(doc, "<", i)
        gt == IndexFrom(doc, ">", lt)
    IN  IF lt = 0 \/ gt = 0 THEN <<>>
        ELSE <<SubSeq(doc, lt, gt)>> \o TagsFrom(doc, gt + 1)

TagsOf(doc) == TagsFrom(doc, 1)

\* the bytes of the buffer that delimit markup, all of them part of a tag
NoRawMarkup(doc) ==
    /\ Len(FindAllStringIndex(doc, "<")) = Len(TagsOf(doc))
    /\ Len(FindAllStringIndex(doc, ">")) = Len(TagsOf(doc))

\* C38: a value is written escaped, once for each occurrence it replaces:
\* after every Replace call the buffer has no "<" and no ">" outside a tag
\* and no escaped "&", and its tags are those of the buffer before the
\* calls, in the same order
C38_ValuesInjectNoMarkup ==
    (phase = "ready" /\ last.op = "Goroutines" /\ NoCallUnderWay) =>
        /\ NoRawMarkup(document)
        /\ ~HasInfix(document, <<"&", "a", "m", "p", ";">>)
        /\ TagsOf(document) = TagsOf(last.before.document)

\* the loop of Replace stands further on in the placeholders after the step
LoopAdvances ==
    LET me == goroutines[Caller]
        then == goroutines'[Caller]
    IN  (me.at = "editing" /\ then.at = "editing") =>
            \/ then.i > me.i
            \/ then.i = me.i /\ then.f > me.f

\* C39: a Replace call goes through the placeholders once, each step taking
\* it further, so that no placeholder is replaced twice in one call also
\* when the value reads as the key; every call that has been made returns,
\* and when it has returned the mutex is free
C39_ReplaceTerminatesAndUnlocks ==
    /\ [][LoopAdvances]_vars
    /\ [](goroutines[Caller].at = "returned" => mu = 0)
    /\ (goroutines[Caller].at = "waiting") ~> (goroutines[Caller].at = "returned")

\* C39 witness: Replace("a", "{a}") has returned on a buffer with two {a}:
\* both are replaced, once each, both read {a} as before, and the mutex is
\* free
C39_Witness ==
    /\ phase = "ready"
    /\ goroutines[Caller].at = "returned"
    /\ goroutines[Caller].key = <<"{", "a", "}">>
    /\ goroutines[Caller].value = <<"{", "a", "}">>
    /\ goroutines[Caller].err = "nil"
    /\ calls = 1
    /\ ReplaceCount = 2
    /\ document = last.before.document
    /\ mu = 0

\* findRuns is under way or has ended
InFindRuns == phase \in {"locating", "located", "failed"}

\* the tokens findRuns has taken so far
TakenTokens ==
    LET toks == Tokens(document).toks
    IN  SubSeq(toks, 1, Len(toks) - Len(scan.todo))

\* run start tags minus run end tags among the tokens a..b
Balance(toks, a, b) ==
    Cardinality({c \in a..b : toks[c].Local = RunElementName /\ toks[c].kind = "StartElement"})
      - Cardinality({c \in a..b : toks[c].Local = RunElementName /\ toks[c].kind = "EndElement"})

\* the tokens that close the element opened by token a: one, or none yet
ClosersOf(toks, a) ==
    {b \in (a + 1)..Len(toks) :
        /\ Balance(toks, a, b) = 0
        /\ \A c \in a..(b - 1) : Balance(toks, a, c) > 0}

\* the token that closes the element opened by token a, 0 when it is open
MatchIndex(toks, a) ==
    IF ClosersOf(toks, a) = {} THEN 0 ELSE CHOOSE b \in ClosersOf(toks, a) : TRUE

\* the run has the spans of the run element that token a opens: its start
\* tag, and the end tag that closes it (the tag itself when it is
\* self-closing)
PairedAt(run, toks, a) ==
    LET b == MatchIndex(toks, a)
    IN  /\ toks[a].Local = RunElementName
        /\ toks[a].kind = "StartElement"
        /\ run.OpenTag.End = toks[a].Pos
        /\ Slice(document, run.OpenTag.Start, run.OpenTag.End)
              \in {RunOpenStr, RunSingletonStr}
        /\ b > 0
        /\ IF toks[b].Pos = toks[a].Pos
           THEN run.CloseTag = run.OpenTag
           ELSE /\ run.CloseTag.End = toks[b].Pos
                /\ Slice(document, run.CloseTag.Start, run.CloseTag.End) = RunCloseStr

\* run k lies around run j
Encloses(k, j) == k.OpenTag.Start < j.OpenTag.Start /\ j.CloseTag.End <= k.CloseTag.Start

\* C40: while findRuns scans, its depth counter is the number of run elements
\* open at that point, the stack holds one run less than the depth and is
\* empty at depth zero; every run it has completed has the end tag that
\* closes its start tag; and a run is completed before the run around it
C40_RunsPairedWithAStack ==
    InFindRuns =>
        LET st == scan.st
            toks == TakenTokens
        IN  /\ st.nestCount = Balance(toks, 1, Len(toks))
            /\ Len(st.runStack) = IF st.nestCount > 0 THEN st.nestCount - 1 ELSE 0
            /\ \A k \in 1..Len(st.runs) : \E a \in 1..Len(toks) : PairedAt(st.runs[k], toks, a)
            /\ \A j, k \in 1..Len(st.runs) : Encloses(st.runs[k], st.runs[j]) => j < k

\* C40 witness: findRuns has completed a run three deep and stands inside
\* the two runs around it, one of them on the stack
C40_Witness ==
    /\ phase = "locating"
    /\ scan.st.nestCount = 2
    /\ Len(scan.st.runStack) = 1
    /\ Len(scan.st.runs) = 1
    /\ scan.st.runs[1].OpenTag.Start = 2 * Len(RunOpenStr)

=============================================================================
